---------------------------- MODULE Spec2Model ----------------------------
(***************************************************************************)
(* Verification model of the Mahjong simulator (Benjamin-Kessler/Mahjong). *)
(*                                                                         *)
(*  - the Dancing-Links exact cover solver (dlx_exact_cover_solver.hpp),   *)
(*    modelled link by link;                                               *)
(*  - the meld enumerator and the win check of Hand (include/Hand.hpp);    *)
(*  - the pickup priority resolution of Game (include/Game.hpp);           *)
(*  - the round loop of main.cpp / simulations.cpp.                        *)
(*                                                                         *)
(* The specifications share the variables: SpecDLX and SpecBoundary drive  *)
(* the solver on lists of rows, SpecWin drives Hand::is_winning_hand on    *)
(* hands, SpecSort Hand::sort, SpecScore Hand::get_max_score, SpecPrio     *)
(* Game::prioritize_pickup_action on action vectors, SpecHuman the prompts *)
(* of the human player, SpecFinal the scores at the end of a round, Spec   *)
(* is the round loop and SpecGame the rounds of a game.                    *)
(***************************************************************************)
EXTENDS Integers, Sequences, FiniteSets, TLC

VARIABLES
    sets,            \* solver harness: the rows handed to find_exact_covers
    stale,           \* solver harness: content of matrix[0][j].node_count before the call
    ecs_out,         \* solver harness: outcome of find_exact_covers
    tiles,           \* hand harness: Hand::tiles of the hand under test
    win_out,         \* hand harness: outcome of Hand::is_winning_hand
    player_actions,  \* Game::pickup_action: the actions the players chose
    pickup_tuple,    \* the tuple prioritize_pickup_action returned
    set,             \* Game::set, the undrawn tiles (Set::tiles)
    hands,           \* players[p].hand.tiles for every seat p
    discard_pile,    \* Game::discard_pile (Discard_pile::tiles)
    running,         \* Game::running
    current_player,  \* Game::current_player
    cp,              \* the local current_player of the round loop in main
    human,           \* the local player_number of main: the human seat, or -1
    pc,              \* position of main in the round loop
    n_decisions,     \* number of policy decisions taken so far
    scores,          \* Game::scores, the cumulative score of every seat
    n_rounds,        \* Game::n_rounds
    round_wind,      \* Game::round_wind
    seat_wind,       \* players[p].seat_wind for every seat p
    score_in,        \* score harness: the round wind and the seat wind of the hand
    score_out,       \* score harness: what get_max_score returned
    cin,             \* std::cin: the numbers the human has typed and main has not read
    displayed        \* the calls of display_player_score in the last step

dlxVars  == <<sets, stale, ecs_out>>
handVars == <<tiles, win_out>>
prioVars == <<player_actions, pickup_tuple>>
gameVars == <<set, hands, discard_pile, running, current_player, cp, human, pc, n_decisions>>
roundVars == <<scores, n_rounds, round_wind, seat_wind>>
scoreVars == <<score_in, score_out>>

(***************************************************************************)
(* Generic helpers.                                                        *)
(***************************************************************************)
RECURSIVE SetToSortedSeq(_)
\* the elements of a finite set of integers in increasing order
SetToSortedSeq(S) ==
    IF S = {} THEN <<>>
    ELSE LET m == CHOOSE x \in S : \A y \in S : x <= y
         IN  <<m>> \o SetToSortedSeq(S \ {m})

Range(s) == {s[i] : i \in DOMAIN s}

Min(S) == CHOOSE x \in S : \A y \in S : x <= y

(***************************************************************************)
(* dlx_exact_cover_solver.hpp                                              *)
(***************************************************************************)
MAX_ROW == 100
MAX_COL == 100
n_col   == 14

\* &matrix[i][j] as an integer; the header node and the null pointer
Header == -1
NULL   == -2
Cell(i, j) == i * n_col + j
row_id(node) == node \div n_col
col_id(node) == node % n_col

\* Node::column of a node: &matrix[0][j] for a matrix node; the header node is
\* value-initialised by new Node(), its column pointer is null
column_of(node) == IF node = Header THEN NULL ELSE Cell(0, col_id(node))

get_right(i) == (i + 1) % n_col
get_left(i)  == IF i - 1 < 0 THEN n_col - 1 ELSE i - 1
get_up(i, n_row)   == IF i - 1 < 0 THEN n_row ELSE i - 1
get_down(i, n_row) == (i + 1) % (n_row + 1)

RECURSIVE scan_left(_, _, _, _)
scan_left(prob, a, b, j) ==
    LET b2 == get_left(b)
    IN  IF ~prob[a][b2] /\ b2 # j THEN scan_left(prob, a, b2, j) ELSE b2

RECURSIVE scan_right(_, _, _, _)
scan_right(prob, a, b, j) ==
    LET b2 == get_right(b)
    IN  IF ~prob[a][b2] /\ b2 # j THEN scan_right(prob, a, b2, j) ELSE b2

RECURSIVE scan_up(_, _, _, _, _)
scan_up(prob, a, b, i, n_row) ==
    LET a2 == get_up(a, n_row)
    IN  IF ~prob[a2][b] /\ a2 # i THEN scan_up(prob, a2, b, i, n_row) ELSE a2

RECURSIVE scan_down(_, _, _, _, _)
scan_down(prob, a, b, i, n_row) ==
    LET a2 == get_down(a, n_row)
    IN  IF ~prob[a2][b] /\ a2 # i THEN scan_down(prob, a2, b, i, n_row) ELSE a2

\* The linked matrix built from prob_matrix. node_count of a column header is
\* never reset: the constructor leaves matrix[][] uninitialised and the
\* builder only increments, so the count starts from whatever the memory
\* held (garbage[j]). The header node itself is zero-initialised.
create_toridol_matrix(prob, n_row, garbage) ==
    LET Nodes == {Cell(i, j) : i \in {a \in 0..n_row : TRUE}, j \in 0..(n_col - 1)}
        Live  == {nd \in Nodes : prob[row_id(nd)][col_id(nd)]}
        l0 == [nd \in Live |-> Cell(row_id(nd), scan_left(prob, row_id(nd), col_id(nd), col_id(nd)))]
        r0 == [nd \in Live |-> Cell(row_id(nd), scan_right(prob, row_id(nd), col_id(nd), col_id(nd)))]
        u0 == [nd \in Live |-> Cell(scan_up(prob, row_id(nd), col_id(nd), row_id(nd), n_row), col_id(nd))]
        d0 == [nd \in Live |-> Cell(scan_down(prob, row_id(nd), col_id(nd), row_id(nd), n_row), col_id(nd))]
        All == Live \cup {Header}
    IN  [left  |-> [nd \in All |-> IF nd = Header THEN Cell(0, n_col - 1)
                                   ELSE IF nd = Cell(0, 0) THEN Header ELSE l0[nd]],
         right |-> [nd \in All |-> IF nd = Header THEN Cell(0, 0)
                                   ELSE IF nd = Cell(0, n_col - 1) THEN Header ELSE r0[nd]],
         up    |-> [nd \in All |-> IF nd = Header THEN NULL ELSE u0[nd]],
         down  |-> [nd \in All |-> IF nd = Header THEN NULL ELSE d0[nd]],
         node_count |-> [nd \in {Cell(0, j) : j \in 0..(n_col - 1)} \cup {Header} |->
                            IF nd = Header THEN 0
                            ELSE garbage[col_id(nd)]
                                 + Cardinality({i \in 1..n_row : prob[i][col_id(nd)]})],
         solutions |-> <<>>,
         solutions_vector |-> <<>>,
         crashed |-> FALSE]

\* a dereference of the null pointer ends the process; a crashed process
\* executes nothing further (every operator below returns a crashed state as is)
Crash(st) == [st EXCEPT !.crashed = TRUE]

RECURSIVE cover_row(_, _, _)
\* inner loop of cover, entered with prev = row and then with the node just
\* unlinked: right_node = prev->right is unlinked from its column
cover_row(st, row, prev) ==
    LET right_node == st.right[prev]
    IN  IF right_node = row THEN st
        ELSE LET s1 == [st EXCEPT !.down[st.up[right_node]] = st.down[right_node]]
                 s2 == [s1 EXCEPT !.up[s1.down[right_node]] = s1.up[right_node]]
                 s3 == [s2 EXCEPT !.node_count[Cell(0, col_id(right_node))] = @ - 1]
             IN  cover_row(s3, row, right_node)

RECURSIVE cover_col(_, _, _)
\* outer loop of cover: every row of the column, going down from prev
cover_col(st, col_node, prev) ==
    LET row == st.down[prev]
    IN  IF row = col_node THEN st
        ELSE cover_col(cover_row(st, row, row), col_node, row)

cover(st, target_node) ==
    LET col_node == column_of(target_node)
    IN  IF st.crashed THEN st
        ELSE IF col_node = NULL THEN Crash(st)
        ELSE LET s1 == [st EXCEPT !.right[st.left[col_node]] = st.right[col_node]]
                 s2 == [s1 EXCEPT !.left[s1.right[col_node]] = s1.left[col_node]]
             IN  cover_col(s2, col_node, col_node)

RECURSIVE uncover_row(_, _, _)
uncover_row(st, row_node, prev) ==
    LET left_node == st.left[prev]
    IN  IF left_node = row_node THEN st
        ELSE LET s1 == [st EXCEPT !.down[st.up[left_node]] = left_node]
                 s2 == [s1 EXCEPT !.up[s1.down[left_node]] = left_node]
                 s3 == [s2 EXCEPT !.node_count[Cell(0, col_id(left_node))] = @ + 1]
             IN  uncover_row(s3, row_node, left_node)

RECURSIVE uncover_col(_, _, _)
uncover_col(st, col_node, prev) ==
    LET row_node == st.up[prev]
    IN  IF row_node = col_node THEN st
        ELSE uncover_col(uncover_row(st, row_node, row_node), col_node, row_node)

\* only the left neighbour of the column header is linked back
uncover_relink_left_only(st, col_node) == [st EXCEPT !.right[st.left[col_node]] = col_node]

\* the last two statements of uncover: the column header is linked back
uncover_relink(st, col_node) ==
    LET s1 == [st EXCEPT !.right[st.left[col_node]] = col_node]
    IN  [s1 EXCEPT !.left[s1.right[col_node]] = col_node]

uncover(st, target_node) ==
    LET col_node == column_of(target_node)
    IN  IF st.crashed THEN st
        ELSE IF col_node = NULL THEN Crash(st)
        ELSE uncover_relink(uncover_col(st, col_node, col_node), col_node)

RECURSIVE min_column_loop(_, _, _)
\* the do-while of get_min_column: it stops when h is the header again, so
\* with a single column left the first h examined is the header itself
min_column_loop(st, h, min_col) ==
    LET m2 == IF st.node_count[h] < st.node_count[min_col] THEN h ELSE min_col
        h2 == st.right[h]
    IN  IF h2 # Header THEN min_column_loop(st, h2, m2) ELSE m2

get_min_column(st) ==
    LET min_col == st.right[Header]
    IN  min_column_loop(st, st.right[st.right[Header]], min_col)

\* the row ids are stored as they are, without the shift to row indices
add_solution_row_ids(st) ==
    [st EXCEPT !.solutions_vector =
        Append(@, {row_id(st.solutions[i]) : i \in DOMAIN st.solutions})]

add_solution(st) ==
    [st EXCEPT !.solutions_vector =
        Append(@, {row_id(st.solutions[i]) - 1 : i \in DOMAIN st.solutions})]

\* solutions.push_back(row_node) and solutions.pop_back()
push_back(st, row_node) == [st EXCEPT !.solutions = Append(@, row_node)]
pop_back(st) ==
    IF st.crashed THEN st ELSE [st EXCEPT !.solutions = SubSeq(@, 1, Len(@) - 1)]

RECURSIVE cover_rights(_, _, _)
\* for (right_node = row_node->right; right_node != row_node; ...) cover(right_node)
cover_rights(st, row_node, prev) ==
    LET right_node == st.right[prev]
    IN  IF st.crashed \/ right_node = row_node THEN st
        ELSE cover_rights(cover(st, right_node), row_node, right_node)

RECURSIVE uncover_lefts(_, _, _)
\* for (left_node = row_node->left; left_node != row_node; ...) uncover(left_node)
uncover_lefts(st, row_node, prev) ==
    LET left_node == st.left[prev]
    IN  IF st.crashed \/ left_node = row_node THEN st
        ELSE uncover_lefts(uncover(st, left_node), row_node, left_node)

RECURSIVE search(_)
RECURSIVE search_rows(_, _, _)
\* the for loop of search over the rows of the covered column, entered with
\* prev = column and then with the row just tried
search_rows(st, column, prev) ==
    LET row_node == st.down[prev]
    IN  IF st.crashed \/ row_node = column THEN st
        ELSE search_rows(
                 uncover_lefts(
                     pop_back(search(cover_rights(push_back(st, row_node), row_node, row_node))),
                     row_node, row_node),
                 column, row_node)

\* search from the chosen column on
search_column(st, column) ==
    uncover(search_rows(cover(st, column), column, column), column)

search(st) ==
    IF st.crashed THEN st
    ELSE IF st.right[Header] = Header THEN add_solution(st)
    ELSE search_column(st, get_min_column(st))

\* prob_matrix after the two initialisation loops of find_exact_covers
prob_matrix_of(rows, n_row) ==
    [i \in 0..n_row |-> [j \in 0..(n_col - 1) |->
        IF i = 0 THEN TRUE
        ELSE IF i <= Len(rows) THEN j \in rows[i] ELSE FALSE]]

\* what the caller of find_exact_covers gets: solutions_vector, or no return
solver_outcome(st) ==
    [status |-> IF st.crashed THEN "crashed" ELSE "returned",
     covers |-> IF st.crashed THEN <<>> ELSE st.solutions_vector]

find_exact_covers(rows, garbage) ==
    solver_outcome(search(create_toridol_matrix(
        prob_matrix_of(rows, Len(rows) + 1), Len(rows) + 1, garbage)))

NoOutcome == [status |-> "idle", covers |-> <<>>]

\* what matrix[0][j].node_count may hold when the solver object is created:
\* zero pages, or the counts a previous solver left at the same stack address
GarbageValues == {0, 1}
Garbage == {[j \in 0..(n_col - 1) |-> g] : g \in GarbageValues}

(***************************************************************************)
(* include/Tile.hpp, include/Hand.hpp                                      *)
(***************************************************************************)
HAND_SIZE == 13

\* a tile: suit 0..4 (Circles, Bamboos, Characters, Winds, Dragons), a rank
\* and the visibility flag
Tile(s, r) == [suit |-> s, rank |-> r, hidden |-> TRUE]
OpenTile(s, r) == [suit |-> s, rank |-> r, hidden |-> FALSE]

\* three copies of a tile, a pair, a run of three ranks
Three(t) == <<t, t, t>>
Two(t)   == <<t, t>>
Run(s, r) == <<Tile(s, r), Tile(s, r + 1), Tile(s, r + 2)>>

\* Tile::operator== compares suit and rank only
TileEq(a, b) == a.suit = b.suit /\ a.rank = b.rank

set_visible(t) == [t EXCEPT !.hidden = FALSE]

\* tiles[i] for a zero-based index
At(hand, i) == hand[i + 1]

\* index tuples i < j (< k (< l)) below n, as the nested for loops visit them
IndexPairs(n) == UNION {{<<i, j>> : j \in (i + 1)..(n - 1)} : i \in 0..(n - 1)}
IndexTriples(n) ==
    UNION {{<<p[1], p[2], k>> : k \in (p[2] + 1)..(n - 1)} : p \in IndexPairs(n)}
IndexQuads(n) ==
    UNION {{<<t[1], t[2], t[3], l>> : l \in (t[3] + 1)..(n - 1)} : t \in IndexTriples(n)}

RECURSIVE TupleKey(_, _)
\* rank of an index tuple in the lexicographic order of the loops
TupleKey(t, n) ==
    IF Len(t) = 0 THEN 0 ELSE TupleKey(SubSeq(t, 1, Len(t) - 1), n) * n + t[Len(t)]

\* the vector<set<int>> the loops push, in loop order
InLoopOrder(T, n) ==
    LET keys == SetToSortedSeq({TupleKey(t, n) : t \in T})
        of(key) == CHOOSE t \in T : TupleKey(t, n) = key
    IN  [x \in 1..Len(keys) |-> Range(of(keys[x]))]

\* the visibility of the two tiles is not looked at
get_pairs_any_visibility(hand) ==
    LET n == Len(hand)
    IN  InLoopOrder({t \in IndexPairs(n) : TileEq(At(hand, t[1]), At(hand, t[2]))}, n)

get_pairs(hand) ==
    LET n == Len(hand)
    IN  InLoopOrder({t \in IndexPairs(n) :
            /\ TileEq(At(hand, t[1]), At(hand, t[2]))
            /\ At(hand, t[1]).hidden
            /\ At(hand, t[2]).hidden}, n)

\* the three ranks sorted: arr[1] - arr[0] == 1 && arr[2] - arr[1] == 1
ConsecutiveRanks(a, b, c) ==
    LET lo == IF a <= b /\ a <= c THEN a ELSE IF b <= c THEN b ELSE c
        hi == IF a >= b /\ a >= c THEN a ELSE IF b >= c THEN b ELSE c
        mid == a + b + c - lo - hi
    IN  mid - lo = 1 /\ hi - mid = 1

\* the guard of the outer loop tests suit 3 twice, so Dragons are not skipped
get_chows(hand) ==
    LET n == Len(hand)
    IN  InLoopOrder({t \in IndexTriples(n) :
            /\ ~(At(hand, t[1]).suit = 3 \/ At(hand, t[1]).suit = 3)
            /\ At(hand, t[1]).suit = At(hand, t[2]).suit
            /\ At(hand, t[2]).suit = At(hand, t[3]).suit
            /\ ConsecutiveRanks(At(hand, t[1]).rank, At(hand, t[2]).rank, At(hand, t[3]).rank)
            /\ At(hand, t[1]).hidden = At(hand, t[2]).hidden
            /\ At(hand, t[2]).hidden = At(hand, t[3]).hidden}, n)

get_pongs(hand) ==
    LET n == Len(hand)
    IN  InLoopOrder({t \in IndexTriples(n) :
            /\ TileEq(At(hand, t[1]), At(hand, t[2]))
            /\ TileEq(At(hand, t[2]), At(hand, t[3]))
            /\ At(hand, t[1]).hidden = At(hand, t[2]).hidden
            /\ At(hand, t[2]).hidden = At(hand, t[3]).hidden}, n)

get_kongs(hand) ==
    LET n == Len(hand)
    IN  InLoopOrder({t \in IndexQuads(n) :
            /\ TileEq(At(hand, t[1]), At(hand, t[2]))
            /\ TileEq(At(hand, t[2]), At(hand, t[3]))
            /\ TileEq(At(hand, t[3]), At(hand, t[4]))}, n)

get_combinations(hand) ==
    get_pairs(hand) \o get_chows(hand) \o get_pongs(hand) \o get_kongs(hand)

\* the final loop of is_winning_hand over the covers the solver returned
HasWinningCover(covers, combinations) ==
    \E c \in DOMAIN covers :
        /\ Cardinality(covers[c]) = 5
        /\ \E index \in covers[c] : Cardinality(combinations[index + 1]) = 2

NoWin == [status |-> "idle", result |-> FALSE, covers |-> <<>>, combinations |-> <<>>]
Rejected(combinations) ==
    [status |-> "returned", result |-> FALSE, covers |-> <<>>, combinations |-> combinations]

\* the end of is_winning_hand: the loop over the covers the solver returned
win_outcome(out, combinations) ==
    IF out.status = "crashed"
    THEN [status |-> "crashed", result |-> FALSE, covers |-> <<>>,
          combinations |-> combinations]
    ELSE [status |-> "returned",
          result |-> HasWinningCover(out.covers, combinations),
          covers |-> out.covers,
          combinations |-> combinations]

\* find_exact_covers writes the rows 0..n_row, n_row = sets.size() + 1, of
\* prob_matrix[MAX_ROW][MAX_COL] and of matrix[MAX_ROW][MAX_COL]
RowsWritten(combinations) == Len(combinations) + 2
Overflows(combinations) == RowsWritten(combinations) > MAX_ROW

\* the solver has written behind its arrays: the behaviour is undefined
OutOfBounds(combinations) ==
    [status |-> "out_of_bounds", result |-> FALSE, covers |-> <<>>,
     combinations |-> combinations]

\* what the caller of is_winning_hand sees: after a write behind the arrays
\* of the solver the process crashes or the call returns either value
Outcomes(out) ==
    IF out.status = "out_of_bounds"
    THEN {[out EXCEPT !.status = "crashed"]}
             \cup {[out EXCEPT !.status = "returned", !.result = b] : b \in BOOLEAN}
    ELSE {out}

\* is_winning_hand from the possible_combinations vector on.
\* garbage is the content of the stack memory the local solver object gets.
check_combinations(combinations, garbage) ==
    IF Len(combinations) < 5 THEN Rejected(combinations)
    ELSE IF Cardinality(UNION Range(combinations)) # HAND_SIZE + 1 THEN Rejected(combinations)
    ELSE IF Overflows(combinations) THEN OutOfBounds(combinations)
    ELSE win_outcome(find_exact_covers(combinations, garbage), combinations)

\* Hand::is_winning_hand; covers is what print_combinations(covers) shows
is_winning_hand(hand, garbage) ==
    IF Len(hand) # 14 THEN Rejected(<<>>)
    ELSE IF Len(get_pairs(hand)) = 0 THEN Rejected(<<>>)
    ELSE check_combinations(get_combinations(hand), garbage)

(***************************************************************************)
(* include/Game.hpp: pickup priority                                       *)
(***************************************************************************)
N_PLAYERS == 4
Seats == 0..(N_PLAYERS - 1)

\* std::find(begin, end, action) - begin: the first position holding action,
\* or the size of the vector
FindAction(actions, action) ==
    IF \E i \in DOMAIN actions : actions[i] = action
    THEN (CHOOSE i \in DOMAIN actions :
             /\ actions[i] = action
             /\ \A k \in DOMAIN actions : actions[k] = action => i <= k) - 1
    ELSE Len(actions)

\* mutant: pong is looked up before kong
prioritize_pong_first(actions) ==
    IF FindAction(actions, "pong") < Len(actions)
    THEN <<FindAction(actions, "pong"), "pong">>
    ELSE IF FindAction(actions, "kong") < Len(actions)
    THEN <<FindAction(actions, "kong"), "kong">>
    ELSE IF FindAction(actions, "chow") < Len(actions)
    THEN <<FindAction(actions, "chow"), "chow">>
    ELSE <<-1, "none">>

\* Game::prioritize_pickup_action; actions[p + 1] is the action of seat p
prioritize_pickup_action(actions) ==
    IF FindAction(actions, "kong") < Len(actions)
    THEN <<FindAction(actions, "kong"), "kong">>
    ELSE IF FindAction(actions, "pong") < Len(actions)
    THEN <<FindAction(actions, "pong"), "pong">>
    ELSE IF FindAction(actions, "chow") < Len(actions)
    THEN <<FindAction(actions, "chow"), "chow">>
    ELSE <<-1, "none">>

(***************************************************************************)
(* include/Set.hpp, include/Discard_pile.hpp                               *)
(***************************************************************************)
\* max_rank of the Set constructor: 9 ranks, 4 Winds, 3 Dragons
max_rank(i) == IF i = 3 THEN 4 ELSE IF i = 4 THEN 3 ELSE 9

\* one copy of every tile, in the order of the two inner loops
SuitTiles(i) == [j \in 1..max_rank(i) |-> Tile(i, j - 1)]
OneCopy == SuitTiles(0) \o SuitTiles(1) \o SuitTiles(2) \o SuitTiles(3) \o SuitTiles(4)

\* Set::Set(): four copies, one after the other
SetCtor == OneCopy \o OneCopy \o OneCopy \o OneCopy

\* std::vector::back
back(tiles_) == tiles_[Len(tiles_)]

\* the last tile is handed out and stays where it was
pop_tile_copy(tiles_) ==
    IF Len(tiles_) = 0 THEN [tile |-> Tile(0, 0), rest |-> tiles_]
    ELSE [tile |-> back(tiles_), rest |-> tiles_]

\* Set::pop_tile and Discard_pile::pop_tile: the last tile, or Tile(0, 0) and
\* no change when there is none
pop_tile(tiles_) ==
    IF Len(tiles_) = 0 THEN [tile |-> Tile(0, 0), rest |-> tiles_]
    ELSE [tile |-> back(tiles_), rest |-> SubSeq(tiles_, 1, Len(tiles_) - 1)]

(***************************************************************************)
(* include/Hand.hpp: drawing, discarding, sorting, claims                  *)
(***************************************************************************)
\* the tile is taken only by a hand of HAND_SIZE tiles
take_tile(hand, popped, source) ==
    IF Len(hand) = HAND_SIZE
    THEN [hand |-> Append(hand, popped.tile), rest |-> popped.rest]
    ELSE [hand |-> hand, rest |-> source]

\* Hand::draw_tile
draw_tile(hand, tiles_) == take_tile(hand, pop_tile(tiles_), tiles_)

\* Hand::pick_tile_from_discard
pick_tile_from_discard(hand, pile) == take_tile(hand, pop_tile(pile), pile)

\* Hand::get_valid_discards: the indices of the hidden tiles, increasing
get_valid_discards(hand) ==
    SelectSeq([i \in 1..Len(hand) |-> i - 1], LAMBDA index : At(hand, index).hidden)

\* tiles.erase(tiles.begin() + index)
erase(hand, index) == SubSeq(hand, 1, index) \o SubSeq(hand, index + 2, Len(hand))

\* the tile stays in the hand
discard_without_erase(hand, pile, index) ==
    [hand |-> hand, pile |-> Append(pile, At(hand, index))]

\* the tile is put below the top of the pile
discard_below_top(hand, pile, index) ==
    [hand |-> erase(hand, index),
     pile |-> IF Len(pile) = 0 THEN <<At(hand, index)>>
              ELSE SubSeq(pile, 1, Len(pile) - 1) \o <<At(hand, index), back(pile)>>]

\* Hand::discard_tile_by_index, and the accepted input of Hand::discard_tile
discard_tile_by_index(hand, pile, index) ==
    [hand |-> erase(hand, index), pile |-> Append(pile, At(hand, index))]

\* an open tile is accepted
discard_tile_any_visibility(hand, pile, to_discard) ==
    IF 0 <= to_discard /\ to_discard < HAND_SIZE + 1
    THEN [hand |-> erase(hand, to_discard), pile |-> Append(pile, At(hand, to_discard)),
          valid_discard_tile |-> TRUE]
    ELSE [hand |-> hand, pile |-> pile, valid_discard_tile |-> FALSE]

\* Hand::discard_tile on a hand of HAND_SIZE + 1 tiles: one pass of its loop
\* with the number read from std::cin
discard_tile(hand, pile, to_discard) ==
    IF 0 <= to_discard /\ to_discard < HAND_SIZE + 1 /\ At(hand, to_discard).hidden
    THEN [hand |-> erase(hand, to_discard), pile |-> Append(pile, At(hand, to_discard)),
          valid_discard_tile |-> TRUE]
    ELSE [hand |-> hand, pile |-> pile, valid_discard_tile |-> FALSE]

\* the ranks are not compared
sort_by_suit(hand) ==
    LET before(i) == {j \in DOMAIN hand :
                         \/ hand[j].suit < hand[i].suit
                         \/ (hand[j].suit = hand[i].suit /\ j < i)}
    IN  [k \in DOMAIN hand |->
            hand[CHOOSE i \in DOMAIN hand : Cardinality(before(i)) = k - 1]]

\* the comparison of Hand::sort
TileLess(a, b) == IF a.suit # b.suit THEN a.suit < b.suit ELSE a.rank < b.rank

\* Hand::sort. std::sort on at most 14 elements is an insertion sort, which
\* keeps tiles of equal suit and rank in their order.
sort(hand) ==
    LET before(i) == {j \in DOMAIN hand :
                         \/ TileLess(hand[j], hand[i])
                         \/ (~TileLess(hand[i], hand[j]) /\ j < i)}
    IN  [k \in DOMAIN hand |->
            hand[CHOOSE i \in DOMAIN hand : Cardinality(before(i)) = k - 1]]

\* Hand::get_hidden_hand
get_hidden_hand(hand) == SelectSeq(hand, LAMBDA t : t.hidden)

\* std::count(begin, end, tile)
count(tiles_, tile) == Cardinality({i \in DOMAIN tiles_ : TileEq(tiles_[i], tile)})

\* one hidden copy is enough
check_pong_single(hand, tile) == count(get_hidden_hand(hand), tile) = 1

\* Hand::check_kong, Hand::check_pong
check_kong(hand, tile) == count(get_hidden_hand(hand), tile) = 3
check_pong(hand, tile) == count(get_hidden_hand(hand), tile) = 2

Abs(x) == IF x < 0 THEN -x ELSE x

\* relevant_indices of check_chow and reveal_combination: the hidden tiles of
\* the suit at most two ranks away
relevant_indices(hand, tile) ==
    {index \in 0..(Len(hand) - 1) :
        /\ At(hand, index).hidden
        /\ At(hand, index).suit = tile.suit
        /\ Abs(tile.rank - At(hand, index).rank) <= 2}

all_ranks_of(hand, tile) == {At(hand, index).rank : index \in relevant_indices(hand, tile)}

\* Hand::find_chow_starter_ranks
find_chow_starter_ranks(all_ranks) ==
    {num \in all_ranks : (num + 1) \in all_ranks /\ (num + 2) \in all_ranks}

\* Hand::check_chow: true only with more than one chow starter
check_chow(hand, tile) ==
    IF tile.suit = 3 \/ tile.suit = 4 THEN FALSE
    ELSE Cardinality(find_chow_starter_ranks(all_ranks_of(hand, tile))) > 1

\* the seat of the player is not looked at
check_available_actions_any_seat(hand, tile, player_number, current_player_) ==
    IF check_kong(hand, tile) THEN <<"kong">>
    ELSE IF check_pong(hand, tile) THEN <<"pong">>
    ELSE IF check_chow(hand, tile) THEN <<"chow">>
    ELSE <<>>

\* Hand::check_available_actions on the last discarded tile
check_available_actions(hand, tile, player_number, current_player_) ==
    IF check_kong(hand, tile) THEN <<"kong">>
    ELSE IF check_pong(hand, tile) THEN <<"pong">>
    ELSE IF check_chow(hand, tile) /\ player_number = (current_player_ + 1) % 4
    THEN <<"chow">>
    ELSE <<>>

\* the tiles at the given indices made visible
reveal_indices(hand, indices) ==
    [i \in DOMAIN hand |-> IF (i - 1) \in indices THEN set_visible(hand[i]) ELSE hand[i]]

\* the indices of the tiles equal to tile, increasing
matches(hand, tile) ==
    SelectSeq([i \in 1..Len(hand) |-> i - 1], LAMBDA index : TileEq(At(hand, index), tile))

\* std::find(tiles.begin(), tiles.end(), Tile(suit, rank)): the first index,
\* whatever the visibility
find_tile(hand, suit, rank) ==
    CHOOSE index \in 0..(Len(hand) - 1) :
        /\ TileEq(At(hand, index), Tile(suit, rank))
        /\ \A other \in 0..(index - 1) : ~TileEq(At(hand, other), Tile(suit, rank))

\* the chow branch once chow_starters is known; rand is the value of
\* std::rand() (a human's input selects among the same starters)
reveal_chow_from(hand, suit, chow_starters, rand) ==
    IF Cardinality(chow_starters) = 0 THEN [tiles |-> hand, crashed |-> TRUE]
    ELSE IF Cardinality(chow_starters) = 1 THEN [tiles |-> hand, crashed |-> FALSE]
    ELSE [tiles |-> reveal_indices(hand,
                       {find_tile(hand, suit,
                                  SetToSortedSeq(chow_starters)[(rand % Cardinality(chow_starters)) + 1]
                                      + rank_add) : rank_add \in 0..2}),
          crashed |-> FALSE]

\* the chow branch of reveal_combination
reveal_chow(hand, tile, rand) ==
    IF Cardinality(relevant_indices(hand, tile)) = 3
    THEN [tiles |-> reveal_indices(hand, relevant_indices(hand, tile)), crashed |-> FALSE]
    ELSE IF Cardinality(all_ranks_of(hand, tile)) = 3
    THEN [tiles |-> reveal_indices(hand,
                       {find_tile(hand, tile.suit, rank) : rank \in all_ranks_of(hand, tile)}),
          crashed |-> FALSE]
    ELSE reveal_chow_from(hand, tile.suit,
                          find_chow_starter_ranks(all_ranks_of(hand, tile)), rand)

\* Hand::reveal_combination. The kong and pong loops stop inside the vector
\* because its last tile, the one picked up, is a match; a scan that ends
\* without a match writes past the end.
reveal_combination(hand, tile, action, rand) ==
    IF action = "kong"
    THEN [tiles |-> reveal_indices(hand, Range(matches(hand, tile))),
          crashed |-> ~TileEq(back(hand), tile)]
    ELSE IF action = "pong"
    THEN [tiles |-> reveal_indices(hand,
                       {matches(hand, tile)[n] : n \in 1..Min({3, Len(matches(hand, tile))})}),
          crashed |-> Len(matches(hand, tile)) < 3 /\ ~TileEq(back(hand), tile)]
    ELSE IF action = "chow" THEN reveal_chow(hand, tile, rand)
    ELSE [tiles |-> hand, crashed |-> FALSE]

(***************************************************************************)
(* include/Player.hpp, include/Policy.hpp                                  *)
(***************************************************************************)
\* Player::choose_pickup_action: what the policy (or the human) may answer
choose_pickup_action(hand, tile, player_number, current_player_) ==
    IF Len(check_available_actions(hand, tile, player_number, current_player_)) > 0
    THEN {check_available_actions(hand, tile, player_number, current_player_)[1], "none"}
    ELSE {"none"}

\* the full hand is handed out
get_full_hand_of_any(hand) == hand

\* Player::get_visible_hand: a new hand of the open tiles, in their order
get_visible_hand(hand) == SelectSeq(hand, LAMBDA t : ~t.hidden)

\* Player::get_full_hand: a copy of the hand
get_full_hand(hand) == hand

\* the State object built from the five arguments, which it copies
State(player_number, seat_wind_, round_wind_, hands_, discard_pile_) ==
    [player_number |-> player_number, seat_wind |-> seat_wind_, round_wind |-> round_wind_,
     hands |-> hands_, discard_pile |-> discard_pile_]

\* Game::get_game_state_for_player; game is the Game object (players' hands
\* and seat winds, set, discard_pile, round_wind)
get_game_state_for_player(game, player_number) ==
    State(player_number, game.seat_wind[player_number], game.round_wind,
          [i \in Seats |-> IF i = player_number THEN get_full_hand(game.hands[i])
                           ELSE get_visible_hand(game.hands[i])],
          game.discard_pile)

\* what a read of a std::string outside the vector may give
GarbageStrings == {"none", "chow", "pong", "kong", "garbage"}

\* Player::choose_pickup_action of a human player who is offered
\* available_actions and types chosen_action: the ways the call may end.
\* With assertions the assert ends the process when chosen_action is not
\* below the size (the int is converted to size_t, so a negative number is
\* not below it either); without them available_actions[chosen_action]
\* reads outside the vector.
human_pickup_action(available_actions, chosen_action) ==
    IF chosen_action = -1 THEN {[status |-> "returned", action |-> "none"]}
    ELSE IF 0 <= chosen_action /\ chosen_action < Len(available_actions)
    THEN {[status |-> "returned", action |-> available_actions[chosen_action + 1]]}
    ELSE {[status |-> "aborted", action |-> "none"], [status |-> "crashed", action |-> "none"]}
         \cup {[status |-> "returned", action |-> a] : a \in GarbageStrings}

(***************************************************************************)
(* score_table.hpp, include/Hand.hpp, include/Player.hpp: scoring          *)
(***************************************************************************)
\* initialize_score_table: the entry of (type, suit, visibility) as
\* <<score, multiplier>>; type 0 = pair, 1 = chow, 2 = pong, 3 = kong;
\* operator[] gives <<0, 0>> for a key the table does not hold
score_entry(type, suit, visibility) ==
    IF type = 0
    THEN IF visibility # 1 THEN <<0, 0>>
         ELSE IF suit \in {3, 4} THEN <<2, 0>> ELSE <<0, 0>>
    ELSE IF type = 1 THEN <<0, 0>>
    ELSE IF type = 2
    THEN IF suit \in {0, 1, 2}
         THEN IF visibility = 0 THEN <<4, 0>>
              ELSE IF visibility = 1 THEN <<8, 0>> ELSE <<0, 0>>
         ELSE IF visibility = 0 THEN <<8, 1>>
              ELSE IF visibility = 1 THEN <<16, 1>> ELSE <<0, 0>>
    ELSE IF suit \in {0, 1, 2}
         THEN IF visibility = 0 THEN <<8, 1>> ELSE <<16, 1>>
         ELSE IF visibility = 0 THEN <<16, 2>> ELSE <<32, 2>>

\* The table Hand looks up has a fourth key, the number of winds (round wind,
\* seat wind) a pong or kong of Winds matches: every match doubles once more.
score_table(type, suit, visibility, wind) ==
    <<score_entry(type, suit, visibility)[1], score_entry(type, suit, visibility)[2] + wind>>

\* *std::next(combination.begin(), n): the n-th smallest index
nth(combination, n) == SetToSortedSeq(combination)[n + 1]

\* Hand::get_combination_type
get_combination_type(hand, combination) ==
    IF Cardinality(combination) = 2 THEN 0
    ELSE IF Cardinality(combination) = 4 THEN 3
    ELSE IF At(hand, nth(combination, 0)).rank = At(hand, nth(combination, 1)).rank THEN 2
    ELSE 1

\* a combination of visible tiles gets the key 0
visibility_open_zero(hand, combination) ==
    IF \A index \in combination : At(hand, index).hidden THEN 1
    ELSE IF \A index \in combination : ~At(hand, index).hidden THEN 0
    ELSE 2

\* the visibility key of get_combination_score: 1 when no tile is visible,
\* 1 as well when no tile is hidden, 2 when both occur
visibility_of(hand, combination) ==
    IF \A index \in combination : At(hand, index).hidden THEN 1
    ELSE IF \A index \in combination : ~At(hand, index).hidden THEN 1
    ELSE 2

\* the wind key of get_combination_score
wind_of(hand, combination, type, round_wind_, seat_wind_) ==
    IF At(hand, nth(combination, 0)).suit = 3 /\ type > 1
    THEN (IF At(hand, nth(combination, 0)).rank = round_wind_ THEN 1 ELSE 0)
         + (IF At(hand, nth(combination, 0)).rank = seat_wind_ THEN 1 ELSE 0)
    ELSE 0

\* Hand::get_combination_score
get_combination_score(hand, combination, round_wind_, seat_wind_) ==
    score_table(get_combination_type(hand, combination),
                At(hand, nth(combination, 0)).suit,
                visibility_of(hand, combination),
                wind_of(hand, combination, get_combination_type(hand, combination),
                        round_wind_, seat_wind_))

\* the first combination explored is kept, whatever the later ones give
first_explored(explored, current_multiplier_sum) ==
    IF explored = {} THEN <<0, current_multiplier_sum>>
    ELSE LET first == CHOOSE e \in explored : \A other \in explored : other[1] >= e[1]
         IN  <<first[2], first[3]>>

\* The loop of get_score_recursive over the combinations it explored, each
\* given as <<i, next_sum + current_score, next_multiplier_sum + current_multi>>:
\* max_sum starts at 0 and is replaced only by a larger sum, so the first of
\* the largest sums stays, with its multiplier sum.
max_explored(explored, current_multiplier_sum) ==
    IF \A e \in explored : e[2] <= 0 THEN <<0, current_multiplier_sum>>
    ELSE LET best == CHOOSE e \in explored :
                         \A other \in explored :
                             \/ other[2] < e[2]
                             \/ (other[2] = e[2] /\ other[1] >= e[1])
         IN  <<best[2], best[3]>>

\* one pass of the loop body: the sums the comparison is made with
explore(i, current, next) == <<i, next[1] + current[1], next[2] + current[2]>>

RECURSIVE get_score_recursive(_, _, _, _, _, _, _)
\* Hand::get_score_recursive: every combination from current_index on that
\* shares no tile with used_tiles is explored with the recursion from i + 1
get_score_recursive(hand, combinations, used_tiles, current_index, current_multiplier_sum, round_wind_, seat_wind_) ==
    max_explored(
        {explore(i,
                 get_combination_score(hand, combinations[i + 1], round_wind_, seat_wind_),
                 get_score_recursive(hand, combinations, used_tiles \cup combinations[i + 1],
                                     i + 1, current_multiplier_sum, round_wind_, seat_wind_)) :
            i \in {k \in current_index..(Len(combinations) - 1) :
                      combinations[k + 1] \cap used_tiles = {}}},
        current_multiplier_sum)

\* Hand::get_max_score
get_max_score(hand, round_wind_, seat_wind_) ==
    get_score_recursive(hand, get_combinations(hand), {}, 0, 0, round_wind_, seat_wind_)

\* Hand::get_visible_score: the score of a hand of the open tiles
get_visible_score(hand, round_wind_, seat_wind_) ==
    get_max_score(SelectSeq(hand, LAMBDA t : ~t.hidden), round_wind_, seat_wind_)

\* the first step of Player::get_player_score
score_of(hand, round_wind_, seat_wind_, full_hand) ==
    IF full_hand THEN get_max_score(hand, round_wind_, seat_wind_)
    ELSE get_visible_score(hand, round_wind_, seat_wind_)

\* Hand::get_all_suits; Hand::get_all_ranks, which skips Winds and Dragons
get_all_suits(hand) == {hand[i].suit : i \in DOMAIN hand}
get_all_ranks(hand) == {hand[i].rank : i \in {k \in DOMAIN hand : hand[k].suit < 3}}

\* the bonus of Player::get_player_score for a completely hidden hand
hidden_bonus(hand) == IF Len(get_hidden_hand(hand)) = Len(hand) THEN 20 ELSE 0

\* the bonus multipliers of Player::get_player_score for special hands
special_multiplier(all_suits, all_ranks) ==
    (IF Cardinality(all_suits) = 1
     THEN (IF \A suit \in all_suits : suit < 3 THEN 3 ELSE 4)
     ELSE 0)
    + (IF Cardinality(all_suits \ {3, 4}) = 1 THEN 2 ELSE 0)
    + (IF Cardinality(all_ranks) = 1 /\ all_ranks \subseteq {0, 8} THEN 4 ELSE 0)

\* the bonuses are added whether or not mahjong is declared
get_player_score_with_bonus(hand, round_wind_, seat_wind_, full_hand, mahjong) ==
    <<score_of(hand, round_wind_, seat_wind_, full_hand)[1] + 20 + hidden_bonus(hand),
      score_of(hand, round_wind_, seat_wind_, full_hand)[2]
          + special_multiplier(get_all_suits(hand), get_all_ranks(hand))>>

\* Player::get_player_score
get_player_score(hand, round_wind_, seat_wind_, full_hand, mahjong) ==
    IF mahjong
    THEN <<score_of(hand, round_wind_, seat_wind_, full_hand)[1] + 20 + hidden_bonus(hand),
           score_of(hand, round_wind_, seat_wind_, full_hand)[2]
               + special_multiplier(get_all_suits(hand), get_all_ranks(hand))>>
    ELSE score_of(hand, round_wind_, seat_wind_, full_hand)

RECURSIVE pow2(_)
\* std::pow(2, multiplier)
pow2(multiplier) == IF multiplier = 0 THEN 1 ELSE 2 * pow2(multiplier - 1)

\* the total is not capped
total_score_uncapped(score) == score[1] * pow2(score[2])

\* the total of Game::add_final_score: capped at 3000
total_score(score) == IF score[1] * pow2(score[2]) > 3000 THEN 3000 ELSE score[1] * pow2(score[2])

\* Game::get_player_score: Player::get_player_score is called without the
\* mahjong flag, 20 points are added for mahjong
game_get_player_score(hand, round_wind_, seat_wind_, full_hand, mahjong) ==
    (score_of(hand, round_wind_, seat_wind_, full_hand)[1] + (IF mahjong THEN 20 ELSE 0))
        * pow2(score_of(hand, round_wind_, seat_wind_, full_hand)[2])

\* Game::add_final_score: the scores vector after the call
add_final_score(scores_, hand, round_wind_, seat_wind_, player_number, mahjong) ==
    [scores_ EXCEPT ![player_number] =
        @ + total_score(get_player_score(hand, round_wind_, seat_wind_, TRUE, mahjong))]

\* the wind is rotated by two seats
rotate_wind_opposite(wind) == (wind + 2) % 4

\* the wind is rotated forward
rotate_wind_forward(wind) == (wind + 1) % 4

\* Wind::rotate_wind
rotate_wind(wind) == (wind + 3) % 4

RECURSIVE rotate_seat_wind(_, _)
\* n calls of Player::rotate_seat_wind
rotate_seat_wind(wind, n) == IF n = 0 THEN wind ELSE rotate_seat_wind(rotate_wind(wind), n - 1)

\* nothing is typed, no score is shown
NoInput ==
    /\ cin = <<>>
    /\ displayed = <<>>

\* the scoring harness is not in use
NoScore ==
    /\ score_in = <<>>
    /\ score_out = <<>>

\* the harnesses below do not run a game
NoGame ==
    /\ set = <<>>
    /\ hands = <<>>
    /\ discard_pile = <<>>
    /\ running = FALSE
    /\ current_player = 0
    /\ cp = 0
    /\ human = -1
    /\ pc = "harness"
    /\ n_decisions = 0
    /\ scores = <<>>
    /\ n_rounds = 0
    /\ round_wind = 0
    /\ seat_wind = <<>>

(***************************************************************************)
(* Hand harness: Hand::is_winning_hand on hands built with the             *)
(* Hand(vector<pair>) constructor and set_tiles_visible.                   *)
(***************************************************************************)
MaxShift == 3

BaseHands ==
    << \* 1: pair, chow and three pongs, all concealed
       Two(Tile(0, 0)) \o Run(1, 1) \o Three(Tile(2, 4)) \o Three(Tile(4, 0)) \o Three(Tile(3, 0)),
       \* 2: the same hand with the Characters pong open
       Two(Tile(0, 0)) \o Run(1, 1) \o Three(OpenTile(2, 4)) \o Three(Tile(4, 0)) \o Three(Tile(3, 0)),
       \* 3: seven pairs
       Two(Tile(0, 0)) \o Two(Tile(0, 1)) \o Two(Tile(0, 3)) \o Two(Tile(1, 0)) \o Two(Tile(1, 2))
           \o Two(Tile(3, 1)) \o Two(Tile(4, 2)),
       \* 4: three times four identical tiles and a pair
       Three(Tile(0, 0)) \o <<Tile(0, 0)>> \o Three(Tile(1, 0)) \o <<Tile(1, 0)>>
           \o Three(Tile(3, 0)) \o <<Tile(3, 0)>> \o Two(Tile(4, 0)),
       \* 5: hand 1 with one Wind replaced by an isolated tile
       Two(Tile(0, 0)) \o Run(1, 1) \o Three(Tile(2, 4)) \o Three(Tile(4, 0)) \o Two(Tile(3, 0)) \o <<Tile(3, 3)>>,
       \* 6: hand 1 before the draw (13 tiles)
       Two(Tile(0, 0)) \o Run(1, 1) \o Three(Tile(2, 4)) \o Three(Tile(4, 0)) \o Two(Tile(3, 0)),
       \* 7: fourteen different tiles
       Run(0, 0) \o Run(0, 3) \o Run(0, 6) \o Run(1, 0) \o <<Tile(1, 3), Tile(1, 4)>>,
       \* 8: four identical tiles used as a pong and in a chow
       Three(Tile(0, 0)) \o Run(0, 0) \o Three(Tile(1, 1)) \o Run(1, 5) \o Two(Tile(3, 2)),
       \* 9: a triple of mixed visibility
       Two(Tile(0, 0)) \o Run(1, 1) \o <<OpenTile(2, 4), Tile(2, 4), Tile(2, 4)>> \o Three(Tile(4, 0)) \o Three(Tile(3, 0)),
       \* 10: the three Dragons as a run
       Two(Tile(0, 0)) \o Run(1, 1) \o Three(Tile(2, 4)) \o Run(4, 0) \o Three(Tile(3, 0)),
       \* 11: two chows of the same ranks, twice, and a pair
       Run(0, 0) \o Run(0, 0) \o Run(2, 4) \o Run(2, 4) \o Two(Tile(3, 0)),
       \* 12: hand 1 with an open chow and an open pong
       Two(Tile(0, 0)) \o <<OpenTile(1, 1), OpenTile(1, 2), OpenTile(1, 3)>> \o Three(Tile(2, 4))
           \o Three(OpenTile(4, 0)) \o Three(Tile(3, 0)),
       \* 13: hand 1 with its pongs open and one tile of its pair open
       <<OpenTile(0, 0), Tile(0, 0)>> \o Run(1, 1) \o Three(OpenTile(2, 4))
           \o Three(OpenTile(4, 0)) \o Three(OpenTile(3, 0)) >>

\* the hands of the win check: BaseHands and
\* 14: four copies of three neighbouring Circles and a pair of the next
WinHands ==
    BaseHands \o
    << Three(Tile(0, 0)) \o <<Tile(0, 0)>> \o Three(Tile(0, 1)) \o <<Tile(0, 1)>>
           \o Three(Tile(0, 2)) \o <<Tile(0, 2)>> \o Two(Tile(0, 3)) >>

\* multipliers coprime to 13 and to 14
Multipliers == {1, 3, 5, 9, 11}

\* the hand reordered: position i takes the tile of position a * i + b (mod size)
Arrange(hand, a, b) ==
    [i \in 1..Len(hand) |-> hand[((a * (i - 1) + b) % Len(hand)) + 1]]

InitWin ==
    /\ \E k \in 1..Len(WinHands), a \in Multipliers, b \in 0..MaxShift :
           tiles = Arrange(WinHands[k], a, b)
    /\ stale \in Garbage
    /\ win_out = NoWin
    /\ sets = <<>>
    /\ ecs_out = NoOutcome
    /\ player_actions = <<>>
    /\ pickup_tuple = <<>>
    /\ NoGame
    /\ NoScore
    /\ NoInput

\* hand.is_winning_hand()
IsWinningHand ==
    /\ win_out.status = "idle"
    /\ win_out' \in Outcomes(is_winning_hand(tiles, stale))
    /\ UNCHANGED <<cin, displayed, scoreVars, roundVars, tiles, dlxVars, prioVars, gameVars>>

(***************************************************************************)
(* Solver harness: find_exact_covers on a fresh solver object.             *)
(***************************************************************************)
MaxRows == 4

\* rows the harness builds its inputs from: melds of a hand (sizes 2, 3, 4),
\* single-column rows, large rows and the empty row
RowPool ==
    << {0, 1, 2}, {3, 4, 5}, {6, 7, 8}, {9, 10, 11}, {12, 13},
       {0, 1, 2, 3}, {4, 5}, {9, 10, 11, 12}, {13}, {12},
       {0, 1, 2, 3, 4, 5}, {6, 7, 8, 9, 10, 11, 12, 13},
       {0, 1, 2, 3, 4, 5, 6, 7, 8, 9, 10, 11, 12}, {} >>

\* the input lists: the rows of RowPool picked by a set of at most MaxRows positions
RowLists ==
    { [k \in 1..Cardinality(S) |-> RowPool[SetToSortedSeq(S)[k]]] :
        S \in {T \in SUBSET (1..Len(RowPool)) : Cardinality(T) <= MaxRows} }

InitDLX ==
    /\ sets \in RowLists
    /\ stale \in Garbage
    /\ ecs_out = NoOutcome
    /\ tiles = <<>>
    /\ win_out = NoWin
    /\ player_actions = <<>>
    /\ pickup_tuple = <<>>
    /\ NoGame
    /\ NoScore
    /\ NoInput

\* DLX::exact_cover_solver ecs; ecs.find_exact_covers(sets)
FindExactCovers ==
    /\ ecs_out.status = "idle"
    /\ ecs_out' = find_exact_covers(sets, stale)
    /\ UNCHANGED <<cin, displayed, scoreVars, roundVars, sets, stale, handVars, prioVars, gameVars>>

(***************************************************************************)
(* Boundary harness: find_exact_covers on lists with a row that names a    *)
(* column outside 0..n_col-1. The columns are below MAX_COL, so the write  *)
(* prob_matrix[current_row][value] stays in the row of the array and is    *)
(* never read by create_toridol_matrix (its loops stop at n_col).          *)
(***************************************************************************)
MaxColumn == 14

\* lists of one or two rows of RowPool, one of them with a column >= n_col
MalformedLists ==
    UNION { { [l EXCEPT ![k] = @ \cup {c}] : k \in DOMAIN l, c \in n_col..MaxColumn } :
              l \in {r \in RowLists : Len(r) \in 1..2} }

InitBoundary ==
    /\ sets \in MalformedLists
    /\ stale \in Garbage
    /\ ecs_out = NoOutcome
    /\ tiles = <<>>
    /\ win_out = NoWin
    /\ player_actions = <<>>
    /\ pickup_tuple = <<>>
    /\ NoGame
    /\ NoScore
    /\ NoInput

(***************************************************************************)
(* Priority harness: prioritize_pickup_action on every vector of four      *)
(* pickup actions.                                                         *)
(***************************************************************************)
PickupActions == {"none", "chow", "pong", "kong"}

InitPrio ==
    /\ player_actions \in [1..N_PLAYERS -> PickupActions]
    /\ pickup_tuple = <<>>
    /\ sets = <<>>
    /\ stale \in {[j \in 0..(n_col - 1) |-> 0]}
    /\ ecs_out = NoOutcome
    /\ tiles = <<>>
    /\ win_out = NoWin
    /\ NoGame
    /\ NoScore
    /\ NoInput

\* prioritize_pickup_action(player_actions)
Prioritize ==
    /\ pc = "harness"
    /\ pickup_tuple = <<>>
    /\ player_actions \in [1..N_PLAYERS -> PickupActions]
    /\ pickup_tuple' = prioritize_pickup_action(player_actions)
    /\ UNCHANGED <<cin, displayed, scoreVars, roundVars, player_actions, dlxVars, handVars, gameVars>>

(***************************************************************************)
(* Score harness: Hand::get_max_score on hands built with the              *)
(* Hand(vector<pair>) constructor, and Hand::set_tiles_visible on a pong.  *)
(***************************************************************************)
\* the round winds and seat winds the hands are scored with
ScoreRoundWinds == {0, 1}
ScoreSeatWinds == {0, 2}

\* the orders a hand is entered in
ScoreOrders == {1, 5}

InitScore ==
    /\ \E k \in 1..Len(BaseHands), a \in ScoreOrders : tiles = Arrange(BaseHands[k], a, 0)
    /\ \E rw \in ScoreRoundWinds, sw \in ScoreSeatWinds :
           score_in = [round_wind |-> rw, seat_wind |-> sw]
    /\ score_out = <<>>
    /\ win_out = NoWin
    /\ sets = <<>>
    /\ stale = [j \in 0..(n_col - 1) |-> 0]
    /\ ecs_out = NoOutcome
    /\ player_actions = <<>>
    /\ pickup_tuple = <<>>
    /\ NoGame
    /\ NoInput

\* hand.get_max_score(round_wind, seat_wind)
GetMaxScore ==
    /\ pc = "harness"
    /\ score_in # <<>>
    /\ score_out = <<>>
    /\ score_out' = get_max_score(tiles, score_in.round_wind, score_in.seat_wind)
    /\ UNCHANGED <<cin, displayed, tiles, score_in, win_out, dlxVars, prioVars, gameVars, roundVars>>

\* hand.set_tiles_visible(indices) with the indices of a pong of a concealed hand
SetTilesVisible ==
    /\ pc = "harness"
    /\ score_in # <<>>
    /\ score_out # <<>>
    /\ \A i \in DOMAIN tiles : tiles[i].hidden
    /\ \E n \in DOMAIN get_pongs(tiles) : tiles' = reveal_indices(tiles, get_pongs(tiles)[n])
    /\ score_out' = <<>>
    /\ UNCHANGED <<cin, displayed, score_in, win_out, dlxVars, prioVars, gameVars, roundVars>>

(***************************************************************************)
(* Final score harness: Game::add_final_score for every seat in turn, with *)
(* mahjong for seat cp, on four hands of FinalHands.                       *)
(***************************************************************************)
FinalHands ==
    << BaseHands[1], BaseHands[13], BaseHands[6],
       \* three kongs and a pair of Winds
       Three(Tile(3, 0)) \o <<Tile(3, 0)>> \o Three(Tile(3, 1)) \o <<Tile(3, 1)>>
           \o Three(Tile(3, 2)) \o <<Tile(3, 2)>> \o Two(Tile(3, 3)),
       \* four pongs and a pair of Circles
       Three(Tile(0, 0)) \o Three(Tile(0, 8)) \o Three(Tile(0, 4)) \o Three(Tile(0, 5))
           \o Two(Tile(0, 3)) >>

\* cumulative scores before the calls
FinalStarts == {[p \in Seats |-> 0], [p \in Seats |-> 100 * p + 7]}

InitFinal ==
    /\ \E k \in 0..(Len(FinalHands) - 1) :
           hands = [p \in Seats |-> FinalHands[((k + p) % Len(FinalHands)) + 1]]
    /\ scores \in FinalStarts
    /\ round_wind \in ScoreRoundWinds
    /\ seat_wind = [p \in Seats |-> p]
    /\ cp \in Seats
    /\ current_player = 0
    /\ pc = "final_score"
    /\ set = <<>>
    /\ discard_pile = <<>>
    /\ running = FALSE
    /\ human = -1
    /\ n_decisions = 0
    /\ n_rounds = 0
    /\ tiles = <<>>
    /\ win_out = NoWin
    /\ sets = <<>>
    /\ stale = [j \in 0..(n_col - 1) |-> 0]
    /\ ecs_out = NoOutcome
    /\ player_actions = <<>>
    /\ pickup_tuple = <<>>
    /\ NoScore
    /\ NoInput

\* game.add_final_score(current_player, current_player == cp)
AddFinalScore ==
    /\ pc = "final_score"
    /\ current_player < N_PLAYERS
    /\ scores' = add_final_score(scores, hands[current_player], round_wind,
                                 seat_wind[current_player], current_player, current_player = cp)
    /\ current_player' = current_player + 1
    /\ UNCHANGED <<cin, displayed, handVars, dlxVars, prioVars, scoreVars, set, hands, discard_pile,
                   running, cp, human, pc, n_decisions, n_rounds, round_wind, seat_wind>>

\* the loop of the simulation after a win of seat cp:
\* game.get_player_score(i, true, i == current_player) for every seat i
SimulationScores ==
    /\ pc = "final_score"
    /\ current_player = N_PLAYERS
    /\ score_out = <<>>
    /\ score_out' = [i \in 1..N_PLAYERS |->
                        game_get_player_score(hands[i - 1], round_wind, seat_wind[i - 1],
                                              TRUE, i - 1 = cp)]
    /\ UNCHANGED <<cin, displayed, handVars, dlxVars, prioVars, score_in, gameVars, roundVars>>

(***************************************************************************)
(* Sort harness: Hand::sort, twice, on the hands of the hand harness.      *)
(***************************************************************************)
InitSort ==
    /\ \E k \in 1..Len(BaseHands), a \in Multipliers, b \in 0..MaxShift :
           tiles = Arrange(BaseHands[k], a, b)
    /\ win_out = NoWin
    /\ sets = <<>>
    /\ stale = [j \in 0..(n_col - 1) |-> 0]
    /\ ecs_out = NoOutcome
    /\ player_actions = <<>>
    /\ pickup_tuple = <<>>
    /\ NoGame
    /\ NoScore
    /\ NoInput

\* hand.sort()
Sort ==
    /\ pc \in {"harness", "sorted"}
    /\ tiles' = sort(tiles)
    /\ pc' = IF pc = "harness" THEN "sorted" ELSE "sorted again"
    /\ UNCHANGED <<cin, displayed, win_out, dlxVars, prioVars, set, hands, discard_pile, running,
                   current_player, cp, human, n_decisions, roundVars, scoreVars>>

(***************************************************************************)
(* Input harness: the two places where the human types a number, on        *)
(* MaxInputs numbers typed ahead.                                          *)
(***************************************************************************)
MaxInputs == 2

\* the numbers typed at "Select which tile to discard:"
DiscardInputs == (0 - 1)..(HAND_SIZE + 1)

\* the numbers typed at "Select action:"
PickupInputs == (0 - 2)..2

\* hands of the human at the discard: concealed, with open melds, and one
\* before the draw
DiscardHands == {BaseHands[1], BaseHands[2], BaseHands[12], BaseHands[13], BaseHands[6]}

\* the discards the human is asked about: one that completes a pong, a kong,
\* a chow, and one of no use
PickupDiscards == {Tile(0, 0), Tile(2, 4), Tile(1, 4), Tile(0, 5)}

InitHuman ==
    /\ \/ /\ pc = "select_discard"
          /\ tiles \in DiscardHands
          /\ discard_pile = <<>>
          /\ current_player = 0
          /\ cin \in [1..MaxInputs -> DiscardInputs]
       \/ /\ pc = "select_action"
          /\ tiles = BaseHands[6]
          /\ \E tile \in PickupDiscards : discard_pile = <<tile>>
          /\ current_player \in {1, 3}
          /\ cin \in [1..MaxInputs -> PickupInputs]
    /\ human = 0
    /\ cp = current_player
    /\ running = TRUE
    /\ player_actions = <<>>
    /\ pickup_tuple = <<>>
    /\ win_out = NoWin
    /\ sets = <<>>
    /\ stale = [j \in 0..(n_col - 1) |-> 0]
    /\ ecs_out = NoOutcome
    /\ set = <<>>
    /\ hands = <<>>
    /\ n_decisions = 0
    /\ scores = <<>>
    /\ n_rounds = 0
    /\ round_wind = 0
    /\ seat_wind = <<>>
    /\ displayed = <<>>
    /\ NoScore

\* hand.discard_tile(discard_pile) of the human
HumanDiscard ==
    /\ pc = "select_discard"
    /\ IF Len(tiles) # HAND_SIZE + 1
       THEN /\ pc' = "returned"
            /\ UNCHANGED <<tiles, discard_pile, cin>>
       ELSE /\ cin # <<>>
            /\ cin' = Tail(cin)
            /\ tiles' = discard_tile(tiles, discard_pile, Head(cin)).hand
            /\ discard_pile' = discard_tile(tiles, discard_pile, Head(cin)).pile
            /\ pc' = IF discard_tile(tiles, discard_pile, Head(cin)).valid_discard_tile
                     THEN "returned" ELSE "select_discard"
    /\ UNCHANGED <<displayed, win_out, dlxVars, prioVars, set, hands, running, current_player, cp, human,
                   n_decisions, roundVars, scoreVars>>

\* Player::choose_pickup_action of the human on the last discard
HumanPickup ==
    /\ pc = "select_action"
    /\ IF Len(check_available_actions(tiles, back(discard_pile), human, current_player)) = 0
       THEN /\ player_actions' = <<"none">>
            /\ pc' = "returned"
            /\ cin' = cin
       ELSE /\ cin # <<>>
            /\ cin' = Tail(cin)
            /\ \E end \in human_pickup_action(
                       check_available_actions(tiles, back(discard_pile), human, current_player),
                       Head(cin)) :
                   /\ pc' = end.status
                   /\ player_actions' = IF end.status = "returned" THEN <<end.action>>
                                        ELSE player_actions
    /\ UNCHANGED <<displayed, handVars, dlxVars, pickup_tuple, set, hands, discard_pile, running,
                   current_player, cp, human, n_decisions, roundVars, scoreVars>>

vars == <<dlxVars, handVars, prioVars, gameVars, roundVars, scoreVars, cin, displayed>>

NextScore == GetMaxScore \/ SetTilesVisible
SpecScore == InitScore /\ [][NextScore]_vars

NextDLX == FindExactCovers
SpecDLX == InitDLX /\ [][NextDLX]_vars
SpecBoundary == InitBoundary /\ [][NextDLX]_vars

NextWin == IsWinningHand
SpecWin == InitWin /\ [][NextWin]_vars

NextFinal == AddFinalScore \/ SimulationScores
SpecFinal == InitFinal /\ [][NextFinal]_vars

NextSort == Sort
SpecSort == InitSort /\ [][NextSort]_vars

NextHuman == HumanDiscard \/ HumanPickup
SpecHuman == InitHuman /\ [][NextHuman]_vars

NextPrio == Prioritize
SpecPrio == InitPrio /\ [][NextPrio]_vars

(***************************************************************************)
(* The round loop of main.cpp and simulations.cpp on a Game.                *)
(* pc is the position in the loop, cp the local current_player.            *)
(***************************************************************************)
MaxFree == 2
MaxOptions == 2

Circles(r)    == Tile(0, r)
Bamboos(r)    == Tile(1, r)
Characters(r) == Tile(2, r)
Winds(r)      == Tile(3, r)
Dragons(r)    == Tile(4, r)

\* seq without the tiles of used, each taken from its first copies in seq
without(seq, used) ==
    LET kept == SelectSeq([i \in 1..Len(seq) |-> i],
                          LAMBDA i : Cardinality({j \in 1..(i - 1) : seq[j] = seq[i]})
                                         >= Cardinality({k \in DOMAIN used : used[k] = seq[i]}))
    IN  [n \in 1..Len(kept) |-> seq[kept[n]]]

Reverse(s) == [i \in 1..Len(s) |-> s[Len(s) + 1 - i]]

\* Orders std::shuffle may leave the set in, given by the hands the four
\* Player constructors draw (in draw order) and the first tiles drawn after
\* them; the other tiles follow in the order of the Set constructor.
Deals ==
    << \* 1: seat 1 can chow the first discard, and later a second one
       [hands |-> << <<Circles(2), Circles(4), Bamboos(0), Bamboos(2), Bamboos(4), Bamboos(6),
                       Bamboos(8), Characters(0), Characters(2), Characters(4), Characters(6),
                       Characters(8), Winds(0)>>,
                     <<Winds(3), Circles(1), Circles(2), Circles(3), Circles(3), Circles(4),
                       Circles(5), Circles(6), Bamboos(1), Bamboos(3), Bamboos(5), Bamboos(7),
                       Characters(1)>>,
                     <<Circles(0), Circles(8), Bamboos(0), Bamboos(2), Bamboos(4), Characters(1),
                       Characters(3), Characters(5), Characters(7), Winds(1), Winds(2),
                       Dragons(0), Dragons(1)>>,
                     <<Bamboos(6), Bamboos(8), Characters(0), Characters(2), Characters(4),
                       Characters(6), Characters(8), Winds(0), Winds(1), Winds(2), Dragons(0),
                       Dragons(1), Dragons(2)>> >>,
        draws |-> <<Winds(1), Dragons(2), Winds(3), Dragons(0)>>,
        start |-> 0, human |-> -1],
       \* 2: seat 0 completes a concealed hand with its first draw
       [hands |-> << Two(Circles(0)) \o Run(1, 1) \o Three(Characters(4)) \o Three(Dragons(0))
                         \o Two(Winds(0)),
                     <<Circles(1), Circles(3), Circles(5), Circles(7), Bamboos(0), Bamboos(4),
                       Bamboos(6), Bamboos(8), Characters(0), Characters(2), Characters(6),
                       Characters(8), Winds(1)>>,
                     <<Circles(2), Circles(4), Circles(6), Circles(8), Bamboos(5), Bamboos(7),
                       Characters(1), Characters(3), Characters(5), Characters(7), Winds(2),
                       Winds(3), Dragons(1)>>,
                     <<Circles(1), Circles(3), Circles(5), Circles(7), Bamboos(0), Bamboos(4),
                       Bamboos(6), Bamboos(8), Characters(0), Characters(2), Characters(6),
                       Characters(8), Dragons(2)>> >>,
        draws |-> <<Winds(0)>>,
        start |-> 0, human |-> -1],
       \* 3: the human in seat 0 completes a hand by a pong of seat 1's discard
       [hands |-> << Two(Circles(1)) \o Run(1, 1) \o Three(Characters(4)) \o Three(Dragons(0))
                         \o Two(Winds(0)),
                     <<Circles(1), Circles(3), Circles(5), Circles(7), Bamboos(0), Bamboos(4),
                       Bamboos(6), Bamboos(8), Characters(0), Characters(2), Characters(6),
                       Characters(8), Dragons(1)>>,
                     <<Circles(0), Circles(2), Circles(4), Circles(6), Circles(8), Bamboos(5),
                       Bamboos(7), Characters(1), Characters(3), Characters(5), Characters(7),
                       Winds(1), Winds(2)>>,
                     <<Circles(3), Circles(5), Circles(7), Bamboos(0), Bamboos(4), Bamboos(6),
                       Bamboos(8), Characters(0), Characters(2), Characters(6), Characters(8),
                       Dragons(2), Winds(3)>> >>,
        draws |-> <<Circles(0), Winds(3)>>,
        start |-> 0, human |-> 0],
       \* 4: a simulation started by seat 3, whose first discard seat 1 can pong
       [hands |-> << <<Circles(2), Circles(4), Circles(6), Circles(8), Bamboos(0), Bamboos(2),
                       Bamboos(4), Bamboos(6), Bamboos(8), Characters(1), Characters(3),
                       Characters(5), Dragons(2)>>,
                     <<Circles(0), Circles(0), Circles(3), Circles(7), Bamboos(0), Bamboos(2),
                       Bamboos(4), Bamboos(6), Bamboos(8), Characters(1), Characters(3),
                       Characters(5), Characters(7)>>,
                     <<Circles(1), Circles(5), Bamboos(1), Bamboos(3), Bamboos(5), Bamboos(7),
                       Characters(0), Characters(2), Characters(4), Characters(6), Characters(8),
                       Dragons(0), Dragons(1)>>,
                     <<Circles(0), Circles(2), Circles(4), Circles(6), Circles(8), Bamboos(5),
                       Bamboos(7), Characters(0), Characters(2), Characters(6), Characters(8),
                       Winds(1), Winds(2)>> >>,
        draws |-> <<Winds(3), Winds(0)>>,
        start |-> 3, human |-> -1],
       \* 5: seat 1 can claim two pongs and two kongs in a row, on the first
       \* discard of seat 0 and on the discards of seat 2
       [hands |-> << <<Circles(0), Circles(4), Circles(6), Circles(8), Bamboos(0), Bamboos(2),
                       Bamboos(4), Bamboos(6), Bamboos(8), Characters(1), Characters(3),
                       Characters(5), Characters(7)>>,
                     <<Dragons(0), Dragons(1), Winds(3), Circles(0), Circles(0), Circles(1),
                       Circles(1), Circles(2), Circles(2), Circles(2), Circles(3), Circles(3),
                       Circles(3)>>,
                     <<Circles(1), Circles(2), Circles(3), Bamboos(1), Bamboos(3), Bamboos(5),
                       Bamboos(7), Characters(0), Characters(2), Characters(4), Characters(6),
                       Characters(8), Winds(1)>>,
                     <<Bamboos(0), Bamboos(2), Bamboos(4), Bamboos(6), Bamboos(8), Characters(0),
                       Characters(2), Characters(4), Characters(6), Characters(8), Winds(0),
                       Winds(2), Winds(3)>> >>,
        draws |-> <<Winds(1), Winds(3), Winds(0), Winds(2)>>,
        start |-> 0, human |-> -1] >>

\* the tiles of a deal, in the order they leave the set
DealtTiles(deal) ==
    deal.hands[1] \o deal.hands[2] \o deal.hands[3] \o deal.hands[4] \o deal.draws

\* the set after the four hands are drawn; its last tile is drawn next
SetAfterDeal(deal) ==
    Reverse(deal.draws \o without(SetCtor, DealtTiles(deal)))

\* Game::Game / Game::reset, then the start of the round loop
Init ==
    /\ \E d \in DOMAIN Deals :
           /\ hands = [p \in Seats |-> Deals[d].hands[p + 1]]
           /\ set = SetAfterDeal(Deals[d])
           /\ human = Deals[d].human
           /\ current_player = Deals[d].start
           /\ cp = Deals[d].start
    /\ discard_pile = <<>>
    /\ running = TRUE
    /\ pc = "turn_draw"
    /\ n_decisions = 0
    /\ player_actions = <<>>
    /\ pickup_tuple = <<-1, "none">>
    /\ win_out = NoWin
    /\ tiles = <<>>
    /\ sets = <<>>
    /\ stale = [j \in 0..(n_col - 1) |-> 0]
    /\ ecs_out = NoOutcome
    /\ scores = [p \in Seats |-> 0]
    /\ n_rounds = 0
    /\ round_wind = 0
    /\ seat_wind = [p \in Seats |-> p]
    /\ NoScore
    /\ NoInput

\* the policies decide freely for the first MaxFree decisions of the first
\* round
FreeChoice == n_decisions < MaxFree

\* it is shown as the score of a player with mahjong
display_with_mahjong(player_number, full_hand, mahjong) ==
    [player |-> player_number, full_hand |-> full_hand, mahjong |-> TRUE]

\* Game::display_player_score: the call, as kept in displayed
display_player_score(player_number, full_hand, mahjong) ==
    [player |-> player_number, full_hand |-> full_hand, mahjong |-> mahjong]

\* the loops of main that show the full-hand score of every player
AllScores == [i \in 1..N_PLAYERS |-> display_player_score(i - 1, TRUE, FALSE)]

\* Game::player_draw and Game::sort_player_hand
player_draw(player_number, drawn) ==
    /\ hands' = [hands EXCEPT ![player_number] = sort(drawn.hand)]
    /\ set' = drawn.rest

\* player_turn up to the win check: draw, sort
TurnDraw ==
    /\ pc = "turn_draw"
    /\ player_draw(cp, draw_tile(hands[cp], set))
    /\ pc' = "turn_check"
    /\ displayed' = <<display_player_score(cp, cp = human, FALSE)>>
    /\ UNCHANGED <<cin, scoreVars, roundVars, discard_pile, running, current_player, cp, human, n_decisions,
                   dlxVars, handVars, prioVars>>

\* the flag stays set
winning_hand_ignored(out, next_pc) ==
    /\ win_out' = out
    /\ running' = running
    /\ pc' = IF out.status = "crashed" THEN "crashed" ELSE next_pc

\* Game::player_has_winning_hand and the test of running after it; the loop
\* is left on a win (nothing between there and its end changes the game)
player_has_winning_hand(out, next_pc) ==
    \E seen \in Outcomes(out) :
        /\ win_out' = seen
        /\ running' = IF seen.status = "returned" /\ seen.result THEN FALSE ELSE running
        /\ pc' = IF seen.status = "crashed" THEN "crashed"
                 ELSE IF seen.result THEN "done" ELSE next_pc

\* player_turn: the win check
TurnCheck ==
    /\ pc = "turn_check"
    /\ \E garbage \in Garbage :
           player_has_winning_hand(is_winning_hand(hands[cp], garbage), "turn_discard")
    /\ displayed' = (IF pc' = "done" THEN <<display_player_score(cp, TRUE, TRUE)>> ELSE <<>>)
                        \o (IF pc' = "done" /\ Len(set) = 0 THEN AllScores ELSE <<>>)
    /\ UNCHANGED <<cin, scoreVars, roundVars, set, hands, discard_pile, current_player, cp, human, n_decisions,
                   dlxVars, tiles, prioVars>>

\* the indices the policy (or the human) may discard
DiscardChoices(hand) ==
    IF FreeChoice
    THEN {get_valid_discards(hand)[k] :
              k \in 1..Min({MaxOptions, Len(get_valid_discards(hand))})}
    ELSE {get_valid_discards(hand)[1]}

\* Player::discard_tile has no index to discard: the process crashes, or the
\* human is asked for ever
Crashes == -1
Asks == -2

\* the values of the uninitialised prefered_action that are indices of the
\* hand: its first and its last tile
GarbageIndices == {0, HAND_SIZE}

\* What Player::discard_tile discards. Without a hidden tile get_valid_discards
\* is empty: Policy::select_action computes std::rand() % 0 (random policy) or
\* returns the uninitialised prefered_action (tile_count), which
\* discard_tile_by_index uses as it is: the process crashes or some tile of
\* the hand is discarded. Hand::discard_tile of the human accepts no input.
DiscardOutcomes(player_number) ==
    IF Len(get_valid_discards(hands[player_number])) > 0
    THEN DiscardChoices(hands[player_number])
    ELSE IF player_number = human THEN {Asks}
    ELSE {Crashes} \cup {index \in GarbageIndices : index < Len(hands[player_number])}

\* the round goes on when the set is empty
player_discard_keeps_running(player_number, next_player) ==
    /\ pc' = IF Len(get_valid_discards(hands[player_number])) = 0 THEN "crashed" ELSE "loop_head"
    /\ running' = running
    /\ IF Len(get_valid_discards(hands[player_number])) = 0
       THEN UNCHANGED <<hands, discard_pile>>
       ELSE \E index \in DiscardChoices(hands[player_number]) :
               /\ hands' = [hands EXCEPT ![player_number] =
                               discard_tile_by_index(@, discard_pile, index).hand]
               /\ discard_pile' =
                      discard_tile_by_index(hands[player_number], discard_pile, index).pile
    /\ n_decisions' = IF FreeChoice THEN n_decisions + 1 ELSE n_decisions
    /\ current_player' = next_player

\* Game::player_discard, then the end of the loop body: the round is
\* finished when the set is empty
player_discard(player_number, next_player) ==
    /\ \E index \in DiscardOutcomes(player_number) :
           /\ pc' = IF index = Crashes THEN "crashed"
                    ELSE IF index = Asks THEN "asking"
                    ELSE IF Len(set) = 0 THEN "done" ELSE "loop_head"
           /\ running' = IF index >= 0 /\ Len(set) = 0 THEN FALSE ELSE running
           /\ IF index < 0
              THEN UNCHANGED <<hands, discard_pile>>
              ELSE /\ hands' = [hands EXCEPT ![player_number] =
                                   discard_tile_by_index(@, discard_pile, index).hand]
                   /\ discard_pile' =
                          discard_tile_by_index(hands[player_number], discard_pile, index).pile
    /\ n_decisions' = IF FreeChoice THEN n_decisions + 1 ELSE n_decisions
    /\ current_player' = next_player

\* player_turn: the discard
TurnDiscard ==
    /\ pc = "turn_discard"
    /\ running
    /\ player_discard(cp, current_player)
    /\ displayed' = IF pc' = "done" THEN AllScores ELSE <<>>
    /\ UNCHANGED <<cin, scoreVars, roundVars, set, cp, human, dlxVars, handVars, prioVars>>

\* what each seat answers in Game::pickup_action
PickupOptions ==
    [i \in Seats |->
        IF i = cp THEN {"none"}
        ELSE choose_pickup_action(hands[i], back(discard_pile), i, cp)]

\* the player_actions vectors the poll may collect
PickupAnswers ==
    IF FreeChoice
    THEN {<<a, b, c, d>> : a \in PickupOptions[0], b \in PickupOptions[1],
                           c \in PickupOptions[2], d \in PickupOptions[3]}
    ELSE {[k \in 1..N_PLAYERS |->
              IF PickupOptions[k - 1] = {"none"} THEN "none"
              ELSE CHOOSE a \in PickupOptions[k - 1] : a # "none"]}

\* the next seat is skipped
next_seat_skipped(seat) == (seat + 2) % N_PLAYERS

\* (current_player + 1) % N_PLAYERS
next_seat(seat) == (seat + 1) % N_PLAYERS

\* the loop head: Game::pickup_action, then the claimant picks up or the next
\* seat takes its turn
Poll ==
    /\ pc = "loop_head"
    /\ running
    /\ \E answers \in PickupAnswers :
           /\ player_actions' = answers
           /\ pickup_tuple' = prioritize_pickup_action(answers)
    /\ IF pickup_tuple'[2] # "none"
       THEN /\ cp' = pickup_tuple'[1]
            /\ current_player' = current_player
            /\ pc' = "pick"
       ELSE /\ cp' = next_seat(cp)
            /\ current_player' = next_seat(cp)
            /\ pc' = "turn_draw"
    /\ n_decisions' = IF FreeChoice /\ \E i \in Seats : PickupOptions[i] # {"none"}
                      THEN n_decisions + 1 ELSE n_decisions
    /\ displayed' = <<>>
    /\ UNCHANGED <<cin, scoreVars, roundVars, set, hands, discard_pile, running, human, dlxVars, handVars>>

\* the values of std::rand() considered when a chow is chosen
RandValues == IF FreeChoice THEN 0..2 ELSE {0}

\* Game::player_pick_from_discard
player_pick_from_discard(player_number, action, rand) ==
    /\ hands' = [hands EXCEPT ![player_number] =
                    reveal_combination(pick_tile_from_discard(@, discard_pile).hand,
                                       back(discard_pile), action, rand).tiles]
    /\ discard_pile' = pick_tile_from_discard(hands[player_number], discard_pile).rest
    /\ pc' = IF reveal_combination(pick_tile_from_discard(hands[player_number], discard_pile).hand,
                                   back(discard_pile), action, rand).crashed
             THEN "crashed" ELSE "pick_check"

\* the claimant picks the discard up
Pick ==
    /\ pc = "pick"
    /\ \E rand \in RandValues : player_pick_from_discard(cp, pickup_tuple[2], rand)
    /\ displayed' = <<display_player_score(cp, cp = human, FALSE)>>
    /\ UNCHANGED <<cin, scoreVars, roundVars, set, running, current_player, cp, human, n_decisions,
                   dlxVars, handVars, prioVars>>

\* the hand shown to the human is sorted first
shown_hand(player_number) ==
    IF player_number = human THEN sort(hands[player_number]) ELSE hands[player_number]

\* the win check after a pickup; on a win the branch ends with
\* set_current_player
PickCheck ==
    /\ pc = "pick_check"
    /\ hands' = [hands EXCEPT ![cp] = shown_hand(cp)]
    /\ \E garbage \in Garbage :
           player_has_winning_hand(is_winning_hand(shown_hand(cp), garbage), "pick_discard")
    /\ current_player' = IF pc' = "done" THEN cp ELSE current_player
    /\ displayed' = (IF pc' = "done" THEN <<display_player_score(cp, TRUE, TRUE)>> ELSE <<>>)
                        \o (IF pc' = "done" /\ human # -1 THEN AllScores ELSE <<>>)
    /\ UNCHANGED <<cin, scoreVars, roundVars, set, discard_pile, cp, human, n_decisions, dlxVars, tiles, prioVars>>

\* the discard after a pickup, and set_current_player
PickDiscard ==
    /\ pc = "pick_discard"
    /\ running
    /\ player_discard(cp, cp)
    /\ displayed' = IF pc' = "done" THEN AllScores ELSE <<>>
    /\ UNCHANGED <<cin, scoreVars, roundVars, set, cp, human, dlxVars, handVars, prioVars>>

Next ==
    \/ TurnDraw
    \/ TurnCheck
    \/ TurnDiscard
    \/ Poll
    \/ Pick
    \/ PickCheck
    \/ PickDiscard

\* The loop is sequential code: it takes its next step as long as there is
\* one. The pickup and the two win checks are total (some outcome is always
\* possible at their position), so their weak fairness is that pc does not
\* stay there.
Fairness ==
    /\ WF_vars(TurnDraw)
    /\ WF_vars(TurnDiscard)
    /\ WF_vars(Poll)
    /\ WF_vars(PickDiscard)
    /\ []<>(pc # "pick")
    /\ []<>(pc # "turn_check")
    /\ []<>(pc # "pick_check")

Spec == Init /\ [][Next]_vars /\ Fairness

(***************************************************************************)
(* The rounds of a game: main asks for the next round when the loop is     *)
(* left, and resets the game when it is started on an empty set.           *)
(***************************************************************************)
MaxRounds == 1

\* the locals of the round loop before its first turn
FirstTurn ==
    /\ player_actions' = <<>>
    /\ pickup_tuple' = <<-1, "none">>
    /\ win_out' = NoWin

\* Game::next_round on the reply "Y", set_human, and the first
\* get_current_player of the next pass
NextRound ==
    /\ pc = "done"
    /\ human = 0
    /\ n_rounds < MaxRounds
    /\ running' = TRUE
    /\ n_rounds' = n_rounds + 1
    /\ round_wind' = n_rounds' % 4
    /\ current_player' = n_rounds' % 4
    /\ discard_pile' = <<>>
    /\ \E d \in DOMAIN Deals :
           /\ hands' = [p \in Seats |-> Deals[d].hands[p + 1]]
           /\ set' = SetAfterDeal(Deals[d])
    /\ seat_wind' = [p \in Seats |-> rotate_seat_wind(p, n_rounds')]
    /\ cp' = current_player'
    /\ pc' = "turn_draw"
    /\ FirstTurn
    /\ n_decisions' = MaxFree
    /\ displayed' = <<>>
    /\ UNCHANGED <<cin, scores, human, scoreVars, dlxVars, tiles>>

\* Game::reset: main calls it when a game (set_human(0)) or a simulation is
\* started on an empty set, run_simulations before every game
Reset ==
    /\ pc = "done"
    /\ \/ /\ Len(set) = 0
          /\ human' \in {0, -1}
       \/ /\ human = -1
          /\ n_rounds = 0
          /\ human' = -1
    /\ running' = TRUE
    /\ current_player' = 0
    /\ discard_pile' = <<>>
    /\ \E d \in DOMAIN Deals :
           /\ hands' = [p \in Seats |-> Deals[d].hands[p + 1]]
           /\ set' = SetAfterDeal(Deals[d])
    /\ seat_wind' = [p \in Seats |-> p]
    /\ pc' = "fresh"
    /\ FirstTurn
    /\ n_decisions' = MaxFree
    /\ displayed' = <<>>
    /\ UNCHANGED <<cin, scores, n_rounds, round_wind, cp, scoreVars, dlxVars, tiles>>

\* the seats rand() % 4 is taken from
StartSeats == {0, 3}

\* after the reset: the first get_current_player of main; in
\* run_simulations the first seat is rand() % 4
Begin ==
    /\ pc = "fresh"
    /\ \/ current_player' = current_player
       \/ /\ human = -1
          /\ n_rounds = 0
          /\ current_player' \in StartSeats
    /\ cp' = current_player'
    /\ pc' = "turn_draw"
    /\ displayed' = <<>>
    /\ UNCHANGED <<cin, set, hands, discard_pile, running, human, n_decisions, roundVars, scoreVars,
                   dlxVars, handVars, prioVars>>

NextGame ==
    \/ Next
    \/ NextRound
    \/ Reset
    \/ Begin

SpecGame == Init /\ [][NextGame]_vars

(***************************************************************************)
(* Properties                                                              *)
(***************************************************************************)
Positions == 0..HAND_SIZE

RECURSIVE CanPartition(_, _, _, _)
\* rem can be split into exactly k members of C, one of them of size two
\* (has_pair tells that one was already taken)
CanPartition(C, rem, k, has_pair) ==
    IF rem = {} THEN k = 0 /\ has_pair
    ELSE IF k = 0 THEN FALSE
    ELSE \E c \in C :
            /\ Min(rem) \in c
            /\ c \subseteq rem
            /\ CanPartition(C, rem \ c, k - 1, has_pair \/ Cardinality(c) = 2)

\* five candidate melds partition the fourteen positions, one is a pair
FiveMeldCoverWithPair(hand) ==
    /\ Len(hand) = 14
    /\ CanPartition(Range(get_combinations(hand)), Positions, 5, FALSE)

\* C1: is_winning_hand returns, and returns true exactly when the hand has 14
\* tiles and five of its candidate melds (one of them a pair) partition the
\* 14 positions.
C1_WinIffFiveMeldCover ==
    win_out.status # "idle" =>
        /\ win_out.status = "returned"
        /\ win_out.result <=> FiveMeldCoverWithPair(tiles)

\* the sets of row numbers (from 0) whose rows are non-empty, pairwise
\* disjoint and together hold every column
ExactCoversOf(rows) ==
    { {i - 1 : i \in S} : S \in
        { T \in SUBSET DOMAIN rows :
            /\ \A i \in T : rows[i] # {}
            /\ \A i, k \in T : i # k => rows[i] \cap rows[k] = {}
            /\ UNION {rows[i] : i \in T} = 0..(n_col - 1) } }

\* C2: find_exact_covers on a fresh solver returns every exact cover of the
\* 14 columns exactly once and nothing else, for rows of any size.
C2_AllExactCoversOnce ==
    ecs_out.status # "idle" =>
        /\ ecs_out.status = "returned"
        /\ Range(ecs_out.covers) = ExactCoversOf(sets)
        /\ \A i, k \in DOMAIN ecs_out.covers : i # k => ecs_out.covers[i] # ecs_out.covers[k]

\* C3: every cover the solver returns for the candidate melds of a hand is made
\* of melds that are pairwise disjoint on hand positions and whose union is
\* {0..13}.
C3_CoversPartitionHand ==
    \A c \in DOMAIN win_out.covers :
        LET chosen == win_out.covers[c]
            meld(index) == win_out.combinations[index + 1]
        IN  /\ chosen \subseteq 0..(Len(win_out.combinations) - 1)
            /\ \A x, y \in chosen : x # y => meld(x) \cap meld(y) = {}
            /\ UNION {meld(x) : x \in chosen} = Positions

\* a hand whose check returned several covers
C3_Witness ==
    /\ win_out.status = "returned"
    /\ Len(win_out.covers) > 1
    /\ win_out.result

\* three positions hold a chow (one numeric suit, consecutive ranks) or a pong
IsTriple(hand, c) ==
    /\ Cardinality(c) = 3
    /\ \/ \A x, y \in c : TileEq(At(hand, x), At(hand, y))
       \/ /\ \A x \in c : At(hand, x).suit \in 0..2
          /\ \A x, y \in c : At(hand, x).suit = At(hand, y).suit
          /\ \E r \in 0..6 : {At(hand, x).rank : x \in c} = {r, r + 1, r + 2}

\* a fully concealed hand of four chows or pongs and one pair
FourMeldsAndPair(hand) ==
    /\ Len(hand) = 14
    /\ \A i \in DOMAIN hand : hand[i].hidden
    /\ \E p \in SUBSET Positions :
          /\ Cardinality(p) = 2
          /\ \A x, y \in p : TileEq(At(hand, x), At(hand, y))
          /\ CanPartition({c \in SUBSET (Positions \ p) : IsTriple(hand, c)} \cup {p},
                          Positions, 5, FALSE)

\* C4: for every ordering of a fully concealed hand of four melds and a pair,
\* is_winning_hand returns true.
C4_EveryOrderingWins ==
    (win_out.status # "idle" /\ FourMeldsAndPair(tiles)) =>
        (win_out.status = "returned" /\ win_out.result)

\* the action the priority rule adopts for a vector of claims
Adopted(actions) ==
    IF \E i \in DOMAIN actions : actions[i] = "kong" THEN "kong"
    ELSE IF \E i \in DOMAIN actions : actions[i] = "pong" THEN "pong"
    ELSE IF \E i \in DOMAIN actions : actions[i] = "chow" THEN "chow"
    ELSE "none"

\* C5: prioritize_pickup_action returns kong before pong before chow before
\* (-1, none), with the lowest seat holding the returned action.
C5_KongPongChowPriority ==
    (pc = "harness" /\ pickup_tuple # <<>>) =>
        /\ pickup_tuple[2] = Adopted(player_actions)
        /\ pickup_tuple[2] = "none" => pickup_tuple[1] = -1
        /\ pickup_tuple[2] # "none" =>
              /\ pickup_tuple[1] \in Seats
              /\ player_actions[pickup_tuple[1] + 1] = pickup_tuple[2]
              /\ \A q \in Seats : q < pickup_tuple[1] => player_actions[q + 1] # pickup_tuple[2]

\* kong, pong and chow claimed by three different seats, the kong not first
C5_Witness ==
    /\ pc = "harness"
    /\ pickup_tuple = <<2, "kong">>
    /\ player_actions[1] = "chow"
    /\ player_actions[2] = "pong"
    /\ player_actions[4] = "none"

(***************************************************************************)
(* The round loop: what a step does to the hands, the set and the pile.    *)
(***************************************************************************)
Grown(p)    == Len(hands'[p]) = Len(hands[p]) + 1
Shrunk(p)   == Len(hands'[p]) = Len(hands[p]) - 1
DrawStep    == Len(set') = Len(set) - 1
DiscardStep == Len(discard_pile') = Len(discard_pile) + 1
PickStep    == Len(discard_pile') = Len(discard_pile) - 1
OthersKeep(p) == \A o \in Seats \ {p} : hands'[o] = hands[o]

\* positions of seat p's hand that are open after the step and were not before
NewlyOpen(p) ==
    {i \in DOMAIN hands'[p] :
        /\ ~hands'[p][i].hidden
        /\ (i > Len(hands[p]) \/ hands[p][i].hidden)}

\* the tiles at the positions are a kong or pong of tile, or a chow with it
IsMeldWith(hand, positions, tile, action) ==
    /\ Cardinality(positions) = IF action = "kong" THEN 4 ELSE 3
    /\ IF action = "chow"
       THEN /\ \A i \in positions : hand[i].suit = tile.suit
            /\ \E start \in 0..6 :
                   /\ tile.rank \in start..(start + 2)
                   /\ \A rank \in start..(start + 2) : \E i \in positions : hand[i].rank = rank
       ELSE \A i \in positions : TileEq(hand[i], tile)

\* the claim the round loop is about to execute is one the claimant could make
LegalClaim ==
    /\ pc = "pick"
    /\ Len(discard_pile) > 0
    /\ <<pickup_tuple[2]>> =
           check_available_actions(hands[cp], back(discard_pile), cp, current_player)

\* C6: after player_pick_from_discard for a legal claim the pile has lost its
\* top tile, the claimant holds 14 tiles with that tile last, exactly three
\* (pong, chow) or four (kong) tiles of the claimant are newly open and they
\* form the meld with the picked-up tile, and every other tile of every hand
\* is as it was.
C6_PickupRevealsMeld ==
    [][LegalClaim =>
          /\ PickStep
          /\ discard_pile' = SubSeq(discard_pile, 1, Len(discard_pile) - 1)
          /\ Len(hands'[cp]) = HAND_SIZE + 1
          /\ TileEq(back(hands'[cp]), back(discard_pile))
          /\ IsMeldWith(hands'[cp], NewlyOpen(cp), back(discard_pile), pickup_tuple[2])
          /\ \A i \in DOMAIN hands[cp] : i \notin NewlyOpen(cp) => hands'[cp][i] = hands[cp][i]
          /\ OthersKeep(cp)]_vars

\* a second chow has been executed by a hand that already shows a chow
C6_Witness ==
    /\ pc = "pick_check"
    /\ pickup_tuple[2] = "chow"
    /\ Cardinality({i \in DOMAIN hands[cp] : ~hands[cp][i].hidden}) > 3

\* C7: turn order. The seat that wins the pickup resolution becomes the
\* current player, picks up and discards without a draw from the set in
\* between; after a discard that nobody claims the seat after the discarder
\* draws; only the current player of the loop draws or discards, and the
\* game's current_player is the discarder when the claims are polled.
C7_TurnOrder ==
    [][/\ (pc = "loop_head" /\ pickup_tuple'[2] # "none")
             => (cp' = pickup_tuple'[1] /\ pc' = "pick" /\ ~DrawStep)
       /\ (pc = "pick" /\ pc' = "pick_check") => (PickStep /\ Grown(cp) /\ OthersKeep(cp))
       /\ pc \in {"pick", "pick_check", "pick_discard"} => (set' = set /\ cp' = cp)
       /\ (pc = "loop_head" /\ pickup_tuple'[2] = "none")
             => (cp' = (current_player + 1) % N_PLAYERS /\ pc' = "turn_draw")
       /\ DrawStep => (pc = "turn_draw" /\ Grown(cp) /\ OthersKeep(cp) /\ cp' = cp)
       /\ DiscardStep => (Shrunk(cp) /\ OthersKeep(cp) /\ current_player' = cp /\ cp' = cp)
      ]_vars

\* seat 3 opened and discarded, seat 1 claimed and discarded, and seat 2 has
\* drawn: seat 0 was skipped and still holds the hand it was dealt
C7_Witness ==
    /\ pc = "turn_check"
    /\ cp = 2
    /\ Len(hands[2]) = HAND_SIZE + 1
    /\ hands[0] = Deals[4].hands[1]
    /\ Len(discard_pile) = 1
    /\ Len(hands[3]) = HAND_SIZE
    /\ \E i \in DOMAIN hands[1] : ~hands[1][i].hidden

\* C8: a successful win check after a draw or a pickup clears running with
\* the winner holding 14 tiles and the pile and the set as they were, and
\* once running is cleared neither the set, nor a hand's tiles, nor the pile
\* changes.
C8_WinEndsRound ==
    [][/\ (pc \in {"turn_check", "pick_check"} /\ win_out'.status = "returned" /\ win_out'.result)
             => /\ ~running'
                /\ discard_pile' = discard_pile
                /\ set' = set
                /\ Len(hands'[cp]) = HAND_SIZE + 1
                /\ OthersKeep(cp)
       /\ ~running => UNCHANGED <<set, hands, discard_pile, running>>
      ]_vars

\* the human in seat 0 has won on a claimed discard
C8_Witness ==
    /\ pc = "done"
    /\ ~running
    /\ win_out.status = "returned"
    /\ win_out.result
    /\ cp = 0
    /\ human = 0
    /\ Len(hands[0]) = HAND_SIZE + 1
    /\ \E i \in DOMAIN hands[0] : ~hands[0][i].hidden
    /\ Len(discard_pile) = 1

\* C9: every hand holds 13 or 14 tiles, at most one holds 14, all hold 13
\* when the claims are polled; a draw or a pickup takes a hand from 13 to 14
\* and a discard takes a hand from 14 to 13, the other hands keeping theirs.
C9_HandSizes ==
    /\ [](/\ \A p \in Seats : Len(hands[p]) \in {HAND_SIZE, HAND_SIZE + 1}
          /\ Cardinality({p \in Seats : Len(hands[p]) = HAND_SIZE + 1}) <= 1
          /\ pc = "loop_head" => \A p \in Seats : Len(hands[p]) = HAND_SIZE)
    /\ [][/\ (DrawStep \/ PickStep)
                => \E p \in Seats : /\ Len(hands[p]) = HAND_SIZE
                                    /\ Grown(p)
                                    /\ OthersKeep(p)
          /\ DiscardStep
                => \E p \in Seats : /\ Len(hands[p]) = HAND_SIZE + 1
                                    /\ Shrunk(p)
                                    /\ OthersKeep(p)
         ]_vars

\* the claims are polled after a claimant has picked up and discarded
C9_Witness ==
    /\ pc = "loop_head"
    /\ Len(discard_pile) > 0
    /\ \A p \in Seats : Len(hands[p]) = HAND_SIZE
    /\ \E p \in Seats : \E i \in DOMAIN hands[p] : ~hands[p][i].hidden

\* C10: every round eventually finishes: running becomes false.
C10_RoundFinishes == <>(~running)

(***************************************************************************)
(* The boundary of the solver                                              *)
(***************************************************************************)
\* some row of the input names a column that does not exist
Malformed(rows) == \E i \in DOMAIN rows : \E c \in rows[i] : c >= n_col

\* C21: find_exact_covers reports an error for an input with a row that
\* names a column >= n_col: it neither returns covers nor gets into the
\* search.
C21_RejectsMalformedInput ==
    (Malformed(sets) /\ ecs_out.status # "idle") => ecs_out.status = "rejected"

(***************************************************************************)
(* Hand::sort                                                              *)
(***************************************************************************)
\* the suits and ranks of the hand, in its order
SuitRank(hand) == [i \in DOMAIN hand |-> <<hand[i].suit, hand[i].rank>>]

\* (suit, rank) does not decrease along the hand
NonDecreasing(hand) ==
    \A i \in 1..(Len(hand) - 1) :
        \/ hand[i].suit < hand[i + 1].suit
        \/ hand[i].suit = hand[i + 1].suit /\ hand[i].rank <= hand[i + 1].rank

\* the two hands hold the same tiles (suit, rank and visibility) the same
\* number of times
SameTiles(a, b) ==
    /\ Len(a) = Len(b)
    /\ \A t \in Range(a) \cup Range(b) :
           Cardinality({i \in DOMAIN a : a[i] = t}) = Cardinality({i \in DOMAIN b : b[i] = t})

\* C25: a sort leaves the hand in non-decreasing (suit, rank) order with
\* the tiles it had, each with its visibility; a second sort leaves the
\* sequence of (suit, rank) as it is.
C25_SortIdempotent ==
    [][pc' # pc =>
          /\ NonDecreasing(tiles')
          /\ SameTiles(tiles, tiles')
          /\ pc = "sorted" => SuitRank(tiles') = SuitRank(tiles)]_vars

\* a hand with open and hidden copies of one tile was sorted twice
C25_Witness ==
    /\ pc = "sorted again"
    /\ \E i, j \in DOMAIN tiles :
           TileEq(tiles[i], tiles[j]) /\ tiles[i].hidden /\ ~tiles[j].hidden

(***************************************************************************)
(* The input of the human                                                  *)
(***************************************************************************)
\* C22: at the discard prompt of a 14-tile hand a number outside 0..13 or
\* the index of an open tile leaves the hand and the pile as they are and
\* the prompt is shown again; a number that is the index of a hidden tile
\* moves that tile to the top of the pile and ends the operation; the
\* operation never ends another way.
C22_DiscardInputRetried ==
    [][(pc = "select_discard" /\ Len(tiles) = HAND_SIZE + 1) =>
             /\ cin # <<>>
             /\ cin' = Tail(cin)
             /\ IF Head(cin) \in 0..HAND_SIZE /\ tiles[Head(cin) + 1].hidden
                THEN /\ pc' = "returned"
                     /\ Len(tiles') = HAND_SIZE
                     /\ \A i \in 1..HAND_SIZE :
                            tiles'[i] = tiles[IF i <= Head(cin) THEN i ELSE i + 1]
                     /\ discard_pile' = discard_pile \o <<tiles[Head(cin) + 1]>>
                ELSE /\ pc' = "select_discard"
                     /\ tiles' = tiles
                     /\ discard_pile' = discard_pile]_vars

\* the discard ended after a number was refused: the hand has 13 tiles,
\* an open tile among them, and the pile one hidden tile
C22_Witness ==
    /\ pc = "returned"
    /\ Len(cin) <= MaxInputs - 2
    /\ Len(tiles) = HAND_SIZE
    /\ \E i \in DOMAIN tiles : ~tiles[i].hidden
    /\ Len(discard_pile) = 1
    /\ discard_pile[1].hidden
    /\ player_actions = <<>>

\* C23: at the action prompt a number that is neither -1 nor the index of
\* an offered action leaves everything as it is and the prompt is shown
\* again.
C23_PickupInputRetried ==
    [][(/\ pc = "select_action"
        /\ Len(check_available_actions(tiles, back(discard_pile), human, current_player)) > 0
        /\ cin # <<>>
        /\ Head(cin) # 0 - 1
        /\ Head(cin) \notin 0..(Len(check_available_actions(tiles, back(discard_pile),
                                                             human, current_player)) - 1))
          => /\ pc' = "select_action"
             /\ cin' = Tail(cin)
             /\ UNCHANGED <<tiles, discard_pile, player_actions>>]_vars

(***************************************************************************)
(* The round loop: claims on a discard, the end of the set                 *)
(***************************************************************************)
\* the seats whose entry of the vector is the action
Claimants(actions, action) == {p \in Seats : actions[p + 1] = action}

\* C11: check_available_actions of seat p on a discard of seat d holds chow
\* only if p = (d + 1) mod 4, and no poll collects a chow claim of another
\* seat or two chow claims.
C11_ChowOnlyNextSeat ==
    /\ [](pc = "loop_head" =>
             \A p \in Seats :
                 check_available_actions(hands[p], back(discard_pile), p, cp) = <<"chow">>
                     => p = (cp + 1) % N_PLAYERS)
    /\ [][pc = "loop_head" =>
             /\ Claimants(player_actions', "chow") \subseteq {(cp + 1) % N_PLAYERS}
             /\ Cardinality(Claimants(player_actions', "chow")) <= 1]_vars

\* the seat after the discarder is about to pick the discard up for a chow
C11_Witness ==
    /\ pc = "pick"
    /\ pickup_tuple = <<(current_player + 1) % N_PLAYERS, "chow">>
    /\ Claimants(player_actions, "chow") = {cp}

\* the seats with a legal kong or pong claim on the tile
KongPongClaimants(tile) ==
    {p \in Seats : check_kong(hands[p], tile) \/ check_pong(hands[p], tile)}

\* C12: at most one player has a legal kong or pong claim on the current
\* discard, and the vector of a poll never holds two kong or pong claims.
C12_OneKongPongClaimant ==
    /\ Len(discard_pile) > 0 => Cardinality(KongPongClaimants(back(discard_pile))) <= 1
    /\ player_actions # <<>> =>
           Cardinality(Claimants(player_actions, "kong")
                           \cup Claimants(player_actions, "pong")) <= 1

\* the claims are polled on a discard one seat can pong while another seat
\* holds the fourth copy
C12_Witness ==
    /\ pc = "loop_head"
    /\ \E p \in Seats \ {cp} : check_pong(hands[p], back(discard_pile))
    /\ \E p \in Seats \ {cp} : count(hands[p], back(discard_pile)) = 1

\* the tiles in the set, in the hands and on the pile
TilesInPlay ==
    Len(set) + Len(discard_pile)
        + Len(hands[0]) + Len(hands[1]) + Len(hands[2]) + Len(hands[3])

\* C16: no tile is drawn from an empty set: a turn starts with a tile in the
\* set and takes its last tile, the round is finished when a turn ends with
\* the set empty, and the 136 tiles are all there are (Set::pop_tile never
\* hands out its sentinel).
C16_NoDrawFromEmptySet ==
    /\ [](/\ pc \in {"turn_draw", "loop_head", "pick", "pick_check", "pick_discard"}
                 => Len(set) > 0
          /\ (Len(set) = 0 /\ pc = "done") => ~running
          /\ TilesInPlay = Len(SetCtor))
    /\ [][pc = "turn_draw" =>
             /\ set' = SubSeq(set, 1, Len(set) - 1)
             /\ \E i \in DOMAIN hands'[cp] : hands'[cp][i] = back(set)]_vars

\* the round was finished because the last tile of the set was drawn and
\* nobody won
C16_Witness ==
    /\ pc = "done"
    /\ Len(set) = 0
    /\ ~running
    /\ ~win_out.result
    /\ Len(discard_pile) > 0

(***************************************************************************)
(* Game::add_final_score                                                   *)
(***************************************************************************)
\* base * 2^exponent, at most 3000
Capped(score) == Min({score[1] * 2^score[2], 3000})

\* C27: add_final_score(p, mahjong) adds min(base * 2^exponent, 3000) of
\* p's full-hand score to scores[p], leaves the score of every other seat
\* as it is, and no score decreases.
C27_AddFinalScore ==
    [][current_player' # current_player =>
          /\ scores'[current_player] =
                 scores[current_player]
                     + Capped(get_player_score(hands[current_player], round_wind,
                                               seat_wind[current_player], TRUE,
                                               current_player = cp))
          /\ \A q \in Seats \ {current_player} : scores'[q] = scores[q]
          /\ \A q \in Seats : scores'[q] >= scores[q]]_vars

\* all seats were scored from 0: the winner's total was capped at 3000,
\* another seat has a smaller total that is not 0
C27_Witness ==
    /\ pc = "final_score"
    /\ current_player = N_PLAYERS
    /\ scores[cp] = 3000
    /\ \E q \in Seats : scores[q] > 0 /\ scores[q] < 3000

(***************************************************************************)
(* Hand::check_chow                                                        *)
(***************************************************************************)
\* the hand holds a hidden tile of the suit and the rank
HoldsHidden(hand, suit, rank) ==
    \E i \in DOMAIN hand : hand[i].hidden /\ hand[i].suit = suit /\ hand[i].rank = rank

\* the tile is of a numeric suit and two hidden tiles of the hand form three
\* consecutive ranks of the suit with it
FormsChow(hand, tile) ==
    /\ tile.suit \in {0, 1, 2}
    /\ \E start \in (tile.rank - 2)..tile.rank :
           \A rank \in (start..(start + 2)) \ {tile.rank} : HoldsHidden(hand, tile.suit, rank)

\* C28: check_chow(tile) is true exactly when the tile is of a numeric suit
\* and the hand holds two hidden tiles of the suit that form three
\* consecutive ranks with it; it is false for Winds and Dragons.
C28_CheckChow ==
    pc = "loop_head" =>
        \A p \in Seats :
            check_chow(hands[p], back(discard_pile)) <=> FormsChow(hands[p], back(discard_pile))

\* check_chow never holds without such a pair of hidden tiles
C28_CheckChowSound ==
    pc = "loop_head" =>
        \A p \in Seats :
            check_chow(hands[p], back(discard_pile)) => FormsChow(hands[p], back(discard_pile))

(***************************************************************************)
(* Hand::check_available_actions, Player::choose_pickup_action             *)
(***************************************************************************)
\* the number of hidden tiles of the hand that equal the tile
HiddenCopies(hand, tile) ==
    Cardinality({i \in DOMAIN hand :
                    hand[i].hidden /\ hand[i].suit = tile.suit /\ hand[i].rank = tile.rank})

\* the action seat p is offered on the tile discarded by seat d
Offered(hand, tile, p, d) ==
    IF HiddenCopies(hand, tile) = 3 THEN <<"kong">>
    ELSE IF HiddenCopies(hand, tile) = 2 THEN <<"pong">>
    ELSE IF check_chow(hand, tile) /\ p = (d + 1) % N_PLAYERS THEN <<"chow">>
    ELSE <<>>

\* the answers allowed on an offer
Allowed(offer) == {"none"} \cup {offer[i] : i \in DOMAIN offer}

C29_PollAnswers ==
    /\ [](pc = "loop_head" =>
             \A p \in Seats :
                 check_available_actions(hands[p], back(discard_pile), p, cp)
                     = Offered(hands[p], back(discard_pile), p, cp))
    /\ [][pc = "loop_head" =>
             \A p \in Seats :
                 player_actions'[p + 1] \in Allowed(Offered(hands[p], back(discard_pile), p, cp))]_vars

(***************************************************************************)
(* cover and uncover along the search                                      *)
(***************************************************************************)
\* the links, the counts and the stack of selected rows of a solver state
Links(st) == <<st.left, st.right, st.up, st.down, st.node_count, st.solutions>>

RECURSIVE Entered(_)
RECURSIVE EnteredRows(_, _, _)
\* the solver states in which search is entered below the row loop of a column
EnteredRows(st, column, prev) ==
    LET row_node == st.down[prev]
    IN  IF st.crashed \/ row_node = column THEN {}
        ELSE LET inner == cover_rights(push_back(st, row_node), row_node, row_node)
             IN  Entered(inner)
                     \cup EnteredRows(uncover_lefts(pop_back(search(inner)), row_node, row_node),
                                      column, row_node)

\* the solver states in which search is entered, from st on
Entered(st) ==
    IF st.crashed THEN {}
    ELSE IF st.right[Header] = Header THEN {st}
    ELSE {st} \cup EnteredRows(cover(st, get_min_column(st)), get_min_column(st),
                               get_min_column(st))

\* the matrix find_exact_covers builds for the input of the harness
Built == create_toridol_matrix(prob_matrix_of(sets, Len(sets) + 1), Len(sets) + 1, stale)

\* search entered in st returns with the links, counts and stack of st
Restored(st) == search(st).crashed \/ Links(search(st)) = Links(st)

\* C30: when a call of search returns, every left/right/up/down link, every
\* node_count and the stack of selected rows are as they were when the call
\* was entered; after find_exact_covers the links are those that
\* create_toridol_matrix built.
C30_SearchRestoresLinks ==
    ecs_out.status # "idle" => \A st \in Entered(Built) : Restored(st)

\* find_exact_covers has returned a cover of two rows: search was entered
\* below two selected rows, and the first cover changed the links
C30_Witness ==
    /\ ecs_out.status = "returned"
    /\ \E i \in DOMAIN ecs_out.covers : Cardinality(ecs_out.covers[i]) = 2
    /\ \E st \in Entered(Built) : Len(st.solutions) = 2
    /\ Links(cover(Built, get_min_column(Built))) # Links(Built)

(***************************************************************************)
(* get_min_column                                                          *)
(***************************************************************************)
RECURSIVE UncoveredFrom(_, _)
\* the column headers reached from h by right links before the header node
UncoveredFrom(st, h) == IF h = Header THEN <<>> ELSE <<h>> \o UncoveredFrom(st, st.right[h])

\* the uncovered columns of a solver state, from left to right
Uncovered(st) == UncoveredFrom(st, st.right[Header])

\* col is the leftmost of the uncovered columns with the least node_count
LeftmostMinimal(st, col) ==
    \E k \in DOMAIN Uncovered(st) :
        /\ Uncovered(st)[k] = col
        /\ \A m \in DOMAIN Uncovered(st) :
               /\ st.node_count[col] <= st.node_count[Uncovered(st)[m]]
               /\ m < k => st.node_count[col] < st.node_count[Uncovered(st)[m]]

\* C31: whenever a column is still uncovered, get_min_column returns the
\* header of an uncovered column, never the root header node, with the least
\* node_count of the uncovered columns and leftmost on ties, also when
\* exactly one column is left.
C31_MinColumn ==
    ecs_out.status # "idle" =>
        \A st \in Entered(Built) :
            Len(Uncovered(st)) >= 1 => LeftmostMinimal(st, get_min_column(st))

\* the same with two or more uncovered columns
C31_MinColumnOfSeveral ==
    ecs_out.status # "idle" =>
        \A st \in Entered(Built) :
            Len(Uncovered(st)) >= 2 => LeftmostMinimal(st, get_min_column(st))

(***************************************************************************)
(* The scores shown during a round                                         *)
(***************************************************************************)
\* the open tiles of the hand
OpenTiles(hand) == SelectSeq(hand, LAMBDA t : ~t.hidden)

\* the score the call shown computes is the meld score of the hand
\* (full_hand) or of its open tiles
MeldScoreShown(shown, score) ==
    score = IF shown.full_hand
            THEN get_max_score(hands[shown.player], round_wind, seat_wind[shown.player])
            ELSE get_max_score(OpenTiles(hands[shown.player]), round_wind,
                               seat_wind[shown.player])

\* C26: a score is shown with mahjong = true only for the winner when the
\* round has ended; every score shown while the round goes on is computed
\* with mahjong = false and is the meld score of the full hand or of the
\* open tiles, without a bonus.
C26_BonusOnlyAtRoundEnd ==
    \A i \in DOMAIN displayed :
        /\ displayed[i].mahjong =>
               pc = "done" /\ ~running /\ win_out.result /\ displayed[i].player = cp
        /\ pc # "done" =>
               /\ ~displayed[i].mahjong
               /\ MeldScoreShown(displayed[i],
                                 get_player_score(hands[displayed[i].player], round_wind,
                                                  seat_wind[displayed[i].player],
                                                  displayed[i].full_hand, displayed[i].mahjong))

\* the human is shown the score of the full hand after the draw
C26_Witness ==
    /\ pc = "turn_check"
    /\ running
    /\ cp = human
    /\ displayed = <<[player |-> cp, full_hand |-> TRUE, mahjong |-> FALSE]>>
    /\ Len(hands[cp]) = HAND_SIZE + 1

(***************************************************************************)
(* The snapshot of the game a policy is given                              *)
(***************************************************************************)
\* the Game object
TheGame ==
    [hands |-> hands, set |-> set, discard_pile |-> discard_pile,
     seat_wind |-> seat_wind, round_wind |-> round_wind]

\* tiles a hidden tile is replaced by
OtherTiles == {Tile(0, 0), Tile(4, 2)}

\* the positions of the first and of the last hidden tile of the hand
HiddenEnds(hand) ==
    {k \in DOMAIN hand :
        /\ hand[k].hidden
        /\ (\A j \in 1..(k - 1) : ~hand[j].hidden) \/ (\A j \in (k + 1)..Len(hand) : ~hand[j].hidden)}

\* games that differ from game in one hidden tile of a seat other than p
\* (replaced or taken away), or in the tiles of the set
SameFor(game, p) ==
    UNION { UNION { {[game EXCEPT !.hands[q][i] = t] : t \in OtherTiles}
                        \cup {[game EXCEPT !.hands[q] = erase(@, i - 1)]} :
                      i \in HiddenEnds(game.hands[q]) } :
              q \in Seats \ {p} }
    \cup {[game EXCEPT !.set = Reverse(@)], [game EXCEPT !.set = <<>>]}

\* snapshot is what seat p may see of the game, and is the snapshot of p
\* in the games of SameFor as well
SnapshotFor(p, snapshot) ==
    /\ snapshot.hands[p] = hands[p]
    /\ \A q \in Seats \ {p} :
           /\ \A i \in DOMAIN snapshot.hands[q] : ~snapshot.hands[q][i].hidden
           /\ \A t \in Range(hands[q]) :
                  count(snapshot.hands[q], t) = count(SelectSeq(hands[q], LAMBDA u : ~u.hidden), t)
    /\ snapshot.discard_pile = discard_pile
    /\ \A other \in SameFor(TheGame, p) : get_game_state_for_player(other, p) = snapshot

\* C24: the snapshot for seat p holds p's hand in full, of every other hand
\* the open tiles only, and the discard pile; games that differ in a hidden
\* tile of another seat or in the set give p the same snapshot; and the
\* steps in which the policies are asked change the game only by the
\* discard of the seat whose turn it is.
C24_Snapshot ==
    /\ [](\A p \in Seats : SnapshotFor(p, get_game_state_for_player(TheGame, p)))
    /\ [][pc = "loop_head" => UNCHANGED <<hands, set, discard_pile>>]_vars
    /\ [][(pc = "turn_discard" \/ pc = "pick_discard") =>
             /\ set' = set
             /\ Len(hands'[cp]) + Len(discard_pile') = Len(hands[cp]) + Len(discard_pile)
             /\ \A q \in Seats \ {cp} : hands'[q] = hands[q]]_vars

\* a policy is asked for a discard while another seat has open and hidden
\* tiles and the pile is not empty
C24_Witness ==
    /\ pc = "turn_discard"
    /\ cp # human
    /\ Len(discard_pile) > 0
    /\ \E q \in Seats \ {cp} :
           /\ \E i \in DOMAIN hands[q] : hands[q][i].hidden
           /\ \E i \in DOMAIN hands[q] : ~hands[q][i].hidden

(***************************************************************************)
(* The rounds of a game                                                    *)
(***************************************************************************)
\* what Game::add_final_score would add for every seat at the end of the
\* round; seat cp has the winning hand
FinalScores ==
    [p \in Seats |->
        total_score(get_player_score(hands[p], round_wind, seat_wind[p], TRUE, p = cp))]

\* C13: when the next round starts after a round that was won, the
\* cumulative scores hold the final scores of that round: each seat has at
\* least its final score, and exactly that after the first round.
C13_ScoresAccumulated ==
    [][(pc = "done" /\ win_out.result /\ n_rounds' = n_rounds + 1) =>
          \A p \in Seats :
              /\ scores'[p] >= FinalScores[p]
              /\ n_rounds = 0 => scores'[p] = FinalScores[p]]_vars

\* the set and the hands are the tiles of a new set, every hand has 13
\* hidden tiles
FreshDeal(set_, hands_) ==
    /\ Len(set_) = Len(SetCtor) - N_PLAYERS * HAND_SIZE
    /\ \A p \in Seats :
           /\ Len(hands_[p]) = HAND_SIZE
           /\ \A i \in DOMAIN hands_[p] : hands_[p][i].hidden
    /\ \A tile \in Range(OneCopy) :
           count(set_ \o hands_[0] \o hands_[1] \o hands_[2] \o hands_[3], tile) = 4

\* C14: after the k-th call of next_round the round wind is k mod 4, seat p
\* has the wind (p - k) mod 4, the set has the 84 tiles left by a new deal,
\* every hand has 13 hidden tiles, the pile is empty, running is true and
\* the scores are those before the call; k calls of rotate_seat_wind give
\* (p - k) mod 4 for every k up to two periods.
C14_NextRound ==
    /\ [][n_rounds' # n_rounds =>
             /\ n_rounds' = n_rounds + 1
             /\ round_wind' = n_rounds' % 4
             /\ \A p \in Seats : (seat_wind'[p] + n_rounds') % 4 = p
             /\ FreshDeal(set', hands')
             /\ discard_pile' = <<>>
             /\ running'
             /\ scores' = scores]_vars
    /\ \A k \in 1..(2 * N_PLAYERS) : \A p \in Seats :
           /\ rotate_seat_wind(p, k) \in Seats
           /\ (rotate_seat_wind(p, k) + k) % 4 = p

\* the second round is about to start: round wind South, seat 0 has the
\* wind North, seat 1 East
C14_Witness ==
    /\ n_rounds = 1
    /\ pc = "turn_draw"
    /\ running
    /\ Len(set) = 84
    /\ discard_pile = <<>>
    /\ round_wind = 1
    /\ seat_wind = [p \in Seats |-> IF p = 0 THEN 3 ELSE p - 1]

\* C15: right after reset() the game is as right after its construction.
C15_ResetIsFresh ==
    pc = "fresh" =>
        /\ running
        /\ current_player = 0
        /\ discard_pile = <<>>
        /\ FreshDeal(set, hands)
        /\ seat_wind = [p \in Seats |-> p]
        /\ round_wind = 0
        /\ n_rounds = 0
        /\ scores = [p \in Seats |-> 0]

(***************************************************************************)
(* Scoring                                                                 *)
(***************************************************************************)
\* the scores of S, each increased by value
Shifted(value, S) == {<<value[1] + s[1], value[2] + s[2]>> : s \in S}

RECURSIVE SelectionScores(_, _, _, _, _)
\* <<sum of the base scores, sum of the exponents>> of every selection of
\* pairwise disjoint members of C inside the positions rem: the smallest
\* position is left out, or covered by one member
SelectionScores(hand, C, rem, round_wind_, seat_wind_) ==
    IF rem = {} THEN {<<0, 0>>}
    ELSE SelectionScores(hand, C, rem \ {Min(rem)}, round_wind_, seat_wind_)
         \cup UNION {Shifted(get_combination_score(hand, c, round_wind_, seat_wind_),
                             SelectionScores(hand, C, rem \ c, round_wind_, seat_wind_)) :
                         c \in {d \in C : Min(rem) \in d /\ d \subseteq rem}}

\* result is the score of a selection, and no selection has a larger base
IsBestOf(result, S) ==
    /\ result \in S
    /\ \A s \in S : s[1] <= result[1]

\* C17: get_max_score returns as base score the largest sum of table base
\* scores over the selections of pairwise index-disjoint candidate melds
\* (0 for the empty selection), and as multiplier the sum of the exponents of
\* a selection that attains it.
C17_MaxScoreIsBestSelection ==
    score_out # <<>> =>
        IsBestOf(score_out,
                 SelectionScores(tiles, Range(get_combinations(tiles)), 0..(Len(tiles) - 1),
                                 score_in.round_wind, score_in.seat_wind))

\* the hand of three kongs and a pair was scored: the kongs beat the pairs
\* and pongs the search meets first
C17_Witness ==
    /\ score_out # <<>>
    /\ Len(get_kongs(tiles)) = 3
    /\ score_out[1] > 48
    /\ score_out[2] > 3

\* the positions a step has made visible
Revealed == {i - 1 : i \in {k \in DOMAIN tiles : tiles[k].hidden /\ ~tiles'[k].hidden}}

PositionSets(hand, k) == {c \in SUBSET (0..(Len(hand) - 1)) : Cardinality(c) = k}

SameTile(hand, c) == \A x, y \in c : TileEq(At(hand, x), At(hand, y))
SameVisibility(hand, c) == \A x, y \in c : At(hand, x).hidden = At(hand, y).hidden
AllHidden(hand, c) == \A x \in c : At(hand, x).hidden

\* three positions of one numeric suit with three consecutive ranks
NumericRun(hand, c) ==
    /\ \E suit \in 0..2 : \A x \in c : At(hand, x).suit = suit
    /\ \E r \in 0..6 : \A rank \in r..(r + 2) : \E x \in c : At(hand, x).rank = rank

\* the vector holds every member of S once and nothing else
ListsExactly(vector, S) ==
    /\ Range(vector) = S
    /\ Len(vector) = Cardinality(S)

\* C19: get_chows returns exactly the index triples whose tiles share one
\* numeric suit, have three consecutive ranks and identical visibility; no
\* returned chow holds a Wind or a Dragon.
C19_ChowsAreNumericRuns ==
    win_out.status # "idle" =>
        /\ ListsExactly(get_chows(tiles),
                        {c \in PositionSets(tiles, 3) :
                            NumericRun(tiles, c) /\ SameVisibility(tiles, c)})
        /\ \A n \in DOMAIN get_chows(tiles) :
               \A x \in get_chows(tiles)[n] : At(tiles, x).suit \notin {3, 4}

\* C20: get_pairs returns exactly the pairs of identical tiles that are both
\* hidden, get_pongs the triples of identical tiles of identical visibility,
\* get_kongs the quadruples of identical tiles; a hand of 14 tiles without
\* two identical hidden tiles is not a winning hand.
C20_PairsPongsKongs ==
    /\ ListsExactly(get_pairs(tiles),
                    {c \in PositionSets(tiles, 2) : SameTile(tiles, c) /\ AllHidden(tiles, c)})
    /\ ListsExactly(get_pongs(tiles),
                    {c \in PositionSets(tiles, 3) :
                        SameTile(tiles, c) /\ SameVisibility(tiles, c)})
    /\ ListsExactly(get_kongs(tiles), {c \in PositionSets(tiles, 4) : SameTile(tiles, c)})
    /\ (/\ win_out.status # "idle"
        /\ Len(tiles) = 14
        /\ \A c \in PositionSets(tiles, 2) : SameTile(tiles, c) => ~AllHidden(tiles, c))
           => (win_out.status = "returned" /\ ~win_out.result)

\* the win check has rejected four melds and a pair whose pair has an open
\* tile and whose pongs are open
C20_Witness ==
    /\ win_out.status = "returned"
    /\ ~win_out.result
    /\ Len(tiles) = 14
    /\ Len(get_pairs(tiles)) = 0
    /\ Len(get_pongs(tiles)) = 3
    /\ \E c \in PositionSets(tiles, 2) : SameTile(tiles, c) /\ ~SameVisibility(tiles, c)

(***************************************************************************)
(* The visibility classes of get_combination_score                         *)
(***************************************************************************)
\* the pongs of the hand: three identical tiles, all hidden or all open
PongsOf(hand) ==
    {c \in PositionSets(hand, 3) : SameTile(hand, c) /\ SameVisibility(hand, c)}

\* C32: get_combination_score uses three distinct visibility classes as
\* part of the table key: an all-hidden and an all-open combination get
\* different keys, and a pong of Circles, Bamboos or Characters is scored 4
\* when its tiles are open and 8 when they are hidden.
C32_VisibilityClasses ==
    \A c \in PongsOf(tiles) :
        /\ visibility_of(tiles, c) # 2
        /\ \A d \in PongsOf(tiles) :
               AllHidden(tiles, c) # AllHidden(tiles, d)
                   => visibility_of(tiles, c) # visibility_of(tiles, d)
        /\ At(tiles, nth(c, 0)).suit < 3 =>
               get_combination_score(tiles, c, score_in.round_wind, score_in.seat_wind)[1]
                   = IF AllHidden(tiles, c) THEN 8 ELSE 4

(***************************************************************************)
(* Tile conservation                                                       *)
(***************************************************************************)
\* the containers of tiles: the four hands, the set and the discard pile
TheSet == N_PLAYERS
ThePile == N_PLAYERS + 1
Containers == Seats \cup {TheSet, ThePile}

Content(c) == IF c = TheSet THEN set ELSE IF c = ThePile THEN discard_pile ELSE hands[c]
ContentAfter(c) == IF c = TheSet THEN set' ELSE IF c = ThePile THEN discard_pile' ELSE hands'[c]

\* how often the kind of tile k of OneCopy is in play
InPlay(k) ==
    count(set, OneCopy[k]) + count(discard_pile, OneCopy[k])
        + count(hands[0], OneCopy[k]) + count(hands[1], OneCopy[k])
        + count(hands[2], OneCopy[k]) + count(hands[3], OneCopy[k])

\* the step moves one tile of the kind of tile from src to dst and leaves
\* the kinds of every other container as they are
MovesOne(src, dst, tile) ==
    \A c \in Containers : \A k \in DOMAIN OneCopy :
        count(ContentAfter(c), OneCopy[k]) =
            count(Content(c), OneCopy[k])
                + (IF c = dst /\ TileEq(OneCopy[k], tile) THEN 1 ELSE 0)
                - (IF c = src /\ TileEq(OneCopy[k], tile) THEN 1 ELSE 0)

\* the step moves no tile
MovesNone ==
    \A c \in Containers : \A k \in DOMAIN OneCopy :
        count(ContentAfter(c), OneCopy[k]) = count(Content(c), OneCopy[k])

\* C33: in every state of a round the set, the four hands and the discard
\* pile hold 136 tiles, 4 of every kind; a draw, a discard and a pickup each
\* move exactly one tile between two of them, and no other step moves one.
C33_TileConservation ==
    /\ [](/\ TilesInPlay = 136
          /\ \A k \in DOMAIN OneCopy : InPlay(k) = 4)
    /\ [][pc = "turn_draw" => MovesOne(TheSet, cp, back(set))]_vars
    /\ [][((pc = "turn_discard" \/ pc = "pick_discard") /\ pc' # "crashed")
             => MovesOne(cp, ThePile, back(discard_pile'))]_vars
    /\ [][pc = "pick" => MovesOne(ThePile, cp, back(discard_pile))]_vars
    /\ [][(pc = "turn_check" \/ pc = "loop_head" \/ pc = "pick_check") => MovesNone]_vars

\* tiles were drawn, discarded and picked up: a hand of 14 tiles with open
\* tiles is about to discard, with tiles on the pile
C33_Witness ==
    /\ pc = "pick_discard"
    /\ Len(hands[cp]) = HAND_SIZE + 1
    /\ \E i \in DOMAIN hands[cp] : ~hands[cp][i].hidden
    /\ Len(discard_pile) > 0
    /\ Len(set) < Len(SetCtor) - N_PLAYERS * HAND_SIZE - 1

(***************************************************************************)
(* The tile the claims are polled on                                       *)
(***************************************************************************)
\* C34: whenever Game::pickup_action is called the discard pile is not
\* empty and its top tile is the tile the current player discarded in the
\* step before; no poll looks at an empty pile or at an older tile.
C34_PollOnFreshDiscard ==
    /\ [](pc = "loop_head" => Len(discard_pile) > 0)
    /\ [][pc' = "loop_head" =>
             /\ pc = "turn_discard" \/ pc = "pick_discard"
             /\ cp' = cp
             /\ discard_pile' = Append(discard_pile, back(discard_pile'))
             /\ \E index \in 0..(Len(hands[cp]) - 1) :
                    /\ At(hands[cp], index) = back(discard_pile')
                    /\ hands'[cp] = erase(hands[cp], index)]_vars

\* a poll after the discard of a player who had picked a discard up
C34_Witness ==
    /\ pc = "loop_head"
    /\ running
    /\ Len(discard_pile) >= 2
    /\ Len(hands[cp]) = HAND_SIZE
    /\ \E i \in DOMAIN hands[cp] : ~hands[cp][i].hidden
    /\ cp = pickup_tuple[1]

(***************************************************************************)
(* The tile a player discards                                              *)
(***************************************************************************)
\* C35: whenever a player has to discard (14 tiles, win check failed) the
\* hand holds a hidden tile, so get_valid_discards is not empty and
\* Policy::select_action is not called with an empty list, and the tile
\* discarded is one of the hidden tiles of the hand.
C35_DiscardsHiddenTile ==
    /\ []((pc = "turn_discard" \/ pc = "pick_discard") =>
              /\ Len(hands[cp]) = HAND_SIZE + 1
              /\ Len(get_valid_discards(hands[cp])) > 0)
    /\ [][((pc = "turn_discard" \/ pc = "pick_discard") /\ discard_pile' # discard_pile) =>
             \E i \in DOMAIN get_valid_discards(hands[cp]) :
                 /\ back(discard_pile') = At(hands[cp], get_valid_discards(hands[cp])[i])
                 /\ hands'[cp] = erase(hands[cp], get_valid_discards(hands[cp])[i])]_vars

(***************************************************************************)
(* The open tiles of a hand                                                *)
(***************************************************************************)
\* how many open tiles of the kind of tile k of OneCopy the hand holds
OpenCount(hand, k) ==
    Cardinality({i \in DOMAIN hand : ~hand[i].hidden /\ TileEq(hand[i], OneCopy[k])})

\* the open tiles of every hand are still open tiles of that hand after the step
OpenTilesStay ==
    \A p \in Seats : \A k \in DOMAIN OneCopy :
        OpenCount(hands'[p], k) >= OpenCount(hands[p], k)

NothingToDiscard ==
    /\ pc = "turn_discard" \/ pc = "pick_discard"
    /\ Len(get_valid_discards(hands[cp])) = 0

\* every other step keeps the open tiles in their hands and the pile hidden
C36_OpenTilesStayWithHidden ==
    [][((\A i \in DOMAIN discard_pile : discard_pile[i].hidden) /\ ~NothingToDiscard)
          => /\ OpenTilesStay
             /\ \A i \in DOMAIN discard_pile' : discard_pile'[i].hidden]_vars

(***************************************************************************)
(* The first player of a round                                             *)
(***************************************************************************)
East == 0

\* the seat winds after k calls of next_round
WindsAfter(k) == [p \in Seats |-> rotate_seat_wind(p, k)]

\* the winds are a permutation of {0, 1, 2, 3}
IsPermutation(winds) == {winds[p] : p \in Seats} = Seats

FromStandardSet(hand) ==
    \A i \in DOMAIN hand :
        Cardinality({k \in DOMAIN hand : TileEq(hand[k], hand[i])}) <= 4

\* C38: for every 14-tile hand that can be dealt from the 136-tile set the
\* candidate melds is_winning_hand passes to find_exact_covers, plus the two
\* extra rows, do not exceed MAX_ROW, so no row outside prob_matrix or matrix
\* is read or written.
C38_MatrixFitsHand ==
    (win_out.status # "idle" /\ Len(tiles) = HAND_SIZE + 1 /\ FromStandardSet(tiles)) =>
        RowsWritten(get_combinations(tiles)) <= MAX_ROW

(***************************************************************************)
(* The two ways to the score at the end of a round                         *)
(***************************************************************************)
\* C39: for every player, hand and mahjong flag Game::get_player_score(p,
\* true, mahjong) returns the uncapped total base * 2^exponent of the score
\* add_final_score(p, mahjong) and display_player_score(p, true, mahjong)
\* take from Player::get_player_score with that flag.
C39_ScoringPathsAgree ==
    (pc = "final_score" /\ score_out # <<>>) =>
        \A p \in Seats :
            score_out[p + 1] =
                total_score_uncapped(get_player_score(hands[p], round_wind, seat_wind[p],
                                                      TRUE, p = cp))

\* the two ways agree for the players who have not won
C39_ScoringPathsAgreeWithoutMahjong ==
    (pc = "final_score" /\ score_out # <<>>) =>
        \A p \in Seats \ {cp} :
            score_out[p + 1] =
                total_score_uncapped(get_player_score(hands[p], round_wind, seat_wind[p],
                                                      TRUE, FALSE))

=============================================================================
